---------------------------- MODULE Spec2Model ----------------------------
(***************************************************************************)
(* The terrain / starfield streaming engine of                             *)
(* src/src/components/TerrainBackground.tsx as a state machine.            *)
(*                                                                         *)
(* Lengths are integers in thousandths of a world unit, so the default     *)
(* moveSpeed (0.005, 0, 0.003) is <<5, 3>> and the default chunkSize 30    *)
(* is 30000; the other real-valued settings (heightScale, noiseScale, fog   *)
(* bounds, opacities, pixelRatio, star size) are in thousandths too.  Only  *)
(* the x and z components of a vector are kept: y never enters the chunk    *)
(* arithmetic and moveSpeed.y is 0.  A chunk coordinate is a pair <<x, z>>. *)
(* A lerp step on this integer grid moves at least one unit toward its     *)
(* goal (the float lerp never stalls short of it either).                  *)
(***************************************************************************)
EXTENDS Integers, Sequences, FiniteSets, TLC

\* ------------------------------------------------------------- bounds
\* Largest renderDistance a stored preference, a slider or a preset may set.
MaxRenderDistance == 2
\* Largest chunkGenerationBatchSize a stored preference holds.
MaxBatch == 4
\* The camera target is followed until its x reaches this distance.
MaxTravel == 20
\* onLoad calls are counted up to this number.
MaxOnLoad == 3
\* Number of settings edits the user makes.
MaxEdits == 1
\* Noise coordinates called directly run from 0 to this many steps.
MaxCoordinate == 3
\* Number of direct calls made to the noise generator.
MaxCalls == 2
\* Length of the permutation the generator draws.
TableSize == 4

VARIABLES
  \* React state of the component
  terrainConfig, starConfig, currentQuality, needsRestart, preferencesLoaded,
  isInitialized,
  \* what the running engine effect captured when it was set up
  effect,
  \* locals of the engine effect and refs
  terrainChunks, pendingChunks, chunkGenerationQueue,
  starChunksMap, starChunkGenerationQueue, generatedChunks,
  cameraPosition, cameraTargetPosition, currentSpeed,
  lastChunkUpdatePosition, lastChunk, lastStarChunk,
  \* position inside restartTerrain ("idle" outside it)
  pc,
  \* observers: calls of the onLoad prop, the last step taken, what the last
  \* frame did, and the draining of each queue since it was last seeded
  onLoadCalls, lastOp, lastTick, drain,
  \* observer: the largest number of dispose() calls one chunk's geometry has
  \* received
  maxDisposed,
  \* settings edits made so far
  edits,
  \* the entry 'terrain_preferences' of the browser's localStorage
  localStorage,
  \* observer: the setting the step just taken edited, if it was an edit
  lastEdit,
  \* the kinds of error notification enqueueSnackbar has been given
  snackbar,
  \* the noise generator of the engine effect's run: its permutation table
  \* and its cache, and the calls made to it directly (NoiseSpec)
  permutationTable, noiseCache, calls,
  \* the terrain chunks whose vertices were sampled into the cache since the
  \* generator was made or its cache last cleared
  sampledChunks,
  \* per built chunk and vertex: where the vertex is in the scene, the
  \* coordinate its height was sampled at, and the height (ChunkSpec)
  heightfields,
  \* the browser: whether localStorage.setItem throws (quota exceeded,
  \* storage unavailable), and the times that can pass between one frame
  \* callback and the next, in thirds of a millisecond
  storageFull, frameGaps,
  \* performance.now() at the last frame callback, or at the start of the
  \* animation loop, minus lastFrameTime.current, in thirds of a millisecond
  sinceFrame,
  \* observers: the time from the last processed frame to the last frame
  \* callback, and the time between the last two processed frames; both stop
  \* counting at frameInterval, and a frame that has no processed frame
  \* before it counts as that long after one
  sinceTick, ticksApart,
  \* observer, per queue: the restart-requiring settings under which the
  \* coordinates now in the queue were pushed
  queuedUnder,
  \* the children of the scene of the running engine effect: "T" and "S"
  \* with the coordinate of the terrain or star chunk
  scene

vars == << terrainConfig, starConfig, currentQuality, needsRestart,
           preferencesLoaded, isInitialized, effect, terrainChunks,
           pendingChunks, chunkGenerationQueue, starChunksMap,
           starChunkGenerationQueue, generatedChunks, cameraPosition,
           cameraTargetPosition, currentSpeed, lastChunkUpdatePosition,
           lastChunk, lastStarChunk, pc, onLoadCalls, lastOp, lastTick,
           drain, edits, localStorage, lastEdit, snackbar, maxDisposed,
           permutationTable, noiseCache, calls, sampledChunks, heightfields,
           storageFull, frameGaps, sinceFrame, sinceTick, ticksApart,
           queuedUnder, scene >>

\* ------------------------------------------------------------- helpers
Min(a, b) == IF a <= b THEN a ELSE b
Max(a, b) == IF a >= b THEN a ELSE b
Abs(a) == IF a >= 0 THEN a ELSE 0 - a
Range(s) == { s[i] : i \in DOMAIN s }

\* THREE.Vector3.lerp, one component: a + (b - a) * num / den.
LerpTowards(a, b, num, den) ==
  IF b >= a THEN a + ((b - a) * num + den - 1) \div den
            ELSE a - ((a - b) * num + den - 1) \div den

Lerp(v, w, num, den) ==
  << LerpTowards(v[1], w[1], num, den), LerpTowards(v[2], w[2], num, den) >>

\* Math.floor(position / chunkSize) on both axes.
ChunkOf(position, chunkSize) ==
  << position[1] \div chunkSize, position[2] \div chunkSize >>

EmptyMap == [ k \in {} |-> TRUE ]
MapSet(m, k, v) == [ x \in DOMAIN m \cup {k} |-> IF x = k THEN v ELSE m[x] ]
MapKeep(m, keys) == [ x \in DOMAIN m \cap keys |-> m[x] ]

\* ------------------------------------------------------ configuration
DEFAULT_TERRAIN_CONFIG ==
  [ chunkSize |-> 30000, segments |-> 30, renderDistance |-> 2,
    overlap |-> 1, updateThreshold |-> 10000, heightScale |-> 6000,
    noiseScale |-> 20, fogNear |-> 15000, fogFar |-> 100000,
    cameraHeight |-> 12000, cameraDistance |-> 18000,
    moveSpeed |-> << 5, 3 >>, initialChunks |-> 1,
    chunkGenerationBatchSize |-> 1, wireframe |-> TRUE,
    wireframeOpacity |-> 400, antialias |-> FALSE, pixelRatio |-> 1000,
    terrainColor |-> "#ffffff" ]

DEFAULT_STAR_CONFIG ==
  [ chunkSize |-> 50000, renderDistance |-> 2, starsPerChunk |-> 50,
    chunkGenerationBatchSize |-> 1, yRange |-> << 5000, 10000 >>,
    enabled |-> TRUE, starSize |-> 300, starOpacity |-> 800 ]

QUALITY_PRESETS ==
  [ ultra  |-> [ segments |-> 60, renderDistance |-> 4, antialias |-> TRUE,
                 pixelRatio |-> 2000 ],
    high   |-> [ segments |-> 45, renderDistance |-> 3, antialias |-> TRUE,
                 pixelRatio |-> 1000 ],
    medium |-> [ segments |-> 30, renderDistance |-> 2, antialias |-> FALSE,
                 pixelRatio |-> 1000 ],
    low    |-> [ segments |-> 20, renderDistance |-> 2, antialias |-> FALSE,
                 pixelRatio |-> 750 ] ]

\* The restart list with one entry missing.
TerrainRestartProps_NoOverlap ==
  { "chunkSize", "segments", "renderDistance", "heightScale", "noiseScale",
    "fogNear", "fogFar", "moveSpeed", "initialChunks",
    "chunkGenerationBatchSize", "antialias", "pixelRatio" }

\* The properties whose change asks for a restart.
TerrainRestartProps ==
  { "antialias", "pixelRatio", "segments", "renderDistance", "chunkSize",
    "overlap", "heightScale", "noiseScale", "fogNear", "fogFar", "moveSpeed",
    "initialChunks", "chunkGenerationBatchSize" }

StarRestartProps ==
  { "chunkSize", "renderDistance", "starsPerChunk", "chunkGenerationBatchSize",
    "yRange" }

\* The part of a configuration that only a restart brings into the engine.
Restricted(config, props) == [ f \in props |-> config[f] ]

\* The dependency list of the live-apply effect, per configuration object.
TerrainLiveDeps == { "wireframe", "wireframeOpacity", "terrainColor",
                     "cameraHeight", "cameraDistance" }
StarLiveDeps == { "enabled", "starSize", "starOpacity" }


\* ---------------------------------------------------------------- noise
\* A noise coordinate is an integer n standing for n / Resolution; the cache
\* keys of the generator are the coordinates rounded to thousandths, so four
\* neighbouring coordinates share one key.
Resolution == 4000

\* Exact fractions, kept in lowest terms with a positive denominator.
RECURSIVE GCD(_, _)
GCD(a, b) == IF b = 0 THEN a ELSE GCD(b, a % b)

Ratio(n, d) ==
  LET g == GCD(Abs(n), Abs(d))
      s == IF d < 0 THEN 0 - 1 ELSE 1
  IN [ num |-> (s * n) \div g, den |-> (s * d) \div g ]

RatioAdd(a, b) == Ratio(a.num * b.den + b.num * a.den, a.den * b.den)
RatioMul(a, b) == Ratio(a.num * b.num, a.den * b.den)
RatioDiv(a, b) == Ratio(a.num * b.den, a.den * b.num)

\* The x and y components of the twelve gradient vectors.
gradientVectors ==
  << << 1, 1 >>, << 0 - 1, 1 >>, << 1, 0 - 1 >>, << 0 - 1, 0 - 1 >>,
     << 1, 0 >>, << 0 - 1, 0 >>, << 1, 0 >>, << 0 - 1, 0 >>,
     << 0, 1 >>, << 0, 0 - 1 >>, << 0, 1 >>, << 0, 0 - 1 >> >>

\* The permutations the constructor's Math.random() calls may draw.
PermutationTables ==
  { [ i \in 0..(TableSize - 1) |-> i ],
    [ i \in 0..(TableSize - 1) |-> (i + 1) % TableSize ] }

\* Math.round(x * 1000): the nearest thousandth, halves upwards.
CacheKey(x) == (2 * 1000 * x + Resolution) \div (2 * Resolution)

\* The value generateNoise computes when the cache has no entry: the cell
\* of the coordinate picks a gradient through the permutation table, and the
\* gradient is multiplied with the position inside the cell.  The skew of
\* the cells, the fall-off and the two further corners are left out: the
\* value is a function of the table and the exact coordinate, as in the code.
simplexNoise(table, x, y) ==
  LET cellX == x \div Resolution
      cellY == y \div Resolution
      relativeX == x - cellX * Resolution
      relativeY == y - cellY * Resolution
      gridX == cellX % TableSize
      gridY == cellY % TableSize
      gradientIndex == table[(gridX + table[gridY]) % TableSize] % 12
      gradient == gradientVectors[gradientIndex + 1]
  IN Ratio(gradient[1] * relativeX + gradient[2] * relativeY, 1)

SampleKey(x, y) == [ x |-> CacheKey(x), y |-> CacheKey(y), params |-> << >> ]

\* generateNoise(x, y): the cached value of the rounded coordinate when
\* there is one, the computed value otherwise, which is then cached.
generateNoise(cache, table, x, y) ==
  LET cacheKey == SampleKey(x, y)
  IN IF cacheKey \in DOMAIN cache
     THEN [ cache |-> cache, value |-> cache[cacheKey] ]
     ELSE LET noise == simplexNoise(table, x, y)
          IN [ cache |-> MapSet(cache, cacheKey, noise), value |-> noise ]

TerrainNoiseKey_WithoutOctaves(x, y, octaves, persistence, lacunarity) ==
  [ x |-> CacheKey(x), y |-> CacheKey(y),
    params |-> << 0, persistence, lacunarity >> ]

TerrainNoiseKey(x, y, octaves, persistence, lacunarity) ==
  [ x |-> CacheKey(x), y |-> CacheKey(y),
    params |-> << octaves, persistence, lacunarity >> ]

\* x * frequency, the frequency being a fraction.
Scaled(x, frequency) == (x * frequency.num) \div frequency.den

\* The octave loop of generateTerrainNoise from octave i on; persistence and
\* lacunarity are in thousandths.
RECURSIVE OctaveLoop(_, _, _, _, _, _, _, _)
OctaveLoop(acc, table, x, y, i, octaves, persistence, lacunarity) ==
  IF i >= octaves THEN acc
  ELSE LET r == generateNoise(acc.cache, table, Scaled(x, acc.frequency),
                              Scaled(y, acc.frequency))
       IN OctaveLoop(
            [ cache |-> r.cache,
              total |-> RatioAdd(acc.total, RatioMul(r.value, acc.amplitude)),
              maxValue |-> RatioAdd(acc.maxValue, acc.amplitude),
              amplitude |-> RatioMul(acc.amplitude, Ratio(persistence, 1000)),
              frequency |-> RatioMul(acc.frequency, Ratio(lacunarity, 1000)) ],
            table, x, y, i + 1, octaves, persistence, lacunarity)

\* generateTerrainNoise(x, y, octaves, persistence, lacunarity).
generateTerrainNoise(cache, table, x, y, octaves, persistence, lacunarity) ==
  LET cacheKey == TerrainNoiseKey(x, y, octaves, persistence, lacunarity)
  IN IF cacheKey \in DOMAIN cache
     THEN [ cache |-> cache, value |-> cache[cacheKey] ]
     ELSE LET acc == OctaveLoop(
                       [ cache |-> cache, total |-> Ratio(0, 1),
                         maxValue |-> Ratio(0, 1), amplitude |-> Ratio(1, 1),
                         frequency |-> Ratio(1, 1) ],
                       table, x, y, 0, octaves, persistence, lacunarity)
              result == RatioDiv(acc.total, acc.maxValue)
          IN [ cache |-> MapSet(acc.cache, cacheKey, result),
               value |-> result ]

\* clearCache().
clearCache(cache) == EmptyMap

\* --------------------------------------------------------- heightfield
\* segmentsWithOverlap: the vertices of a chunk along one axis.
segmentsWithOverlap(tc) == tc.segments + 2 * tc.overlap + 1

\* (x - overlap) * xFactor + chunkX * chunkSize, in thousandths.
WorldCoordinate(tc, chunkX, x) ==
  Ratio((x - tc.overlap) * tc.chunkSize + chunkX * tc.chunkSize * tc.segments,
        tc.segments)

\* worldX * noiseScale as a noise coordinate.
NoiseCoordinate(world, noiseScale) ==
  (world.num * noiseScale * Resolution) \div (world.den * 1000000)

\* Where vertex x of the chunk is in the scene along one axis, in
\* thousandths: the mesh is placed at chunkX * chunkSize, and its
\* PlaneGeometry of width chunkSize + overlap * 2 with
\* segments + 2 * overlap segments is centred on that place.
ScenePosition(tc, chunkX, x) ==
  LET width == tc.chunkSize + tc.overlap * 2 * 1000
      widthSegments == tc.segments + 2 * tc.overlap
  IN Ratio(2 * chunkX * tc.chunkSize * widthSegments - width * widthSegments
             + 2 * x * width,
           2 * widthSegments)

\* The heightmap loop of getTerrainChunk: vertexIndex counts the vertices
\* already given a height.
RECURSIVE HeightmapLoop(_, _, _, _)
HeightmapLoop(acc, table, tc, c) ==
  LET vertexIndex == Cardinality(DOMAIN acc.vertices)
  IN IF vertexIndex >= segmentsWithOverlap(tc) * segmentsWithOverlap(tc)
     THEN acc
     ELSE LET x == vertexIndex % segmentsWithOverlap(tc)
              z == vertexIndex \div segmentsWithOverlap(tc)
              worldX == WorldCoordinate(tc, c[1], x)
              worldZ == WorldCoordinate(tc, c[2], z)
              r == generateTerrainNoise(acc.cache, table,
                                        NoiseCoordinate(worldX, tc.noiseScale),
                                        NoiseCoordinate(worldZ, tc.noiseScale),
                                        4, 500, 2000)
              vertex ==
                [ world |-> << worldX, worldZ >>,
                  position |-> << ScenePosition(tc, c[1], x),
                                  ScenePosition(tc, c[2], z) >>,
                  height |-> RatioMul(r.value, Ratio(tc.heightScale, 1000)) ]
          IN HeightmapLoop(
               [ cache |-> r.cache,
                 vertices |-> MapSet(acc.vertices, << x, z >>, vertex) ],
               table, tc, c)

\* ----------------------------------------------------- size of the cache
\* The entries of the cache after the heightmaps of a set of chunks were
\* sampled into the empty cache.  Grid line m of the terrain is the world
\* coordinate m * chunkSize / segments; chunk chunkX holds the grid lines
\* chunkX * segments - overlap to (chunkX + 1) * segments + overlap.
NoiseCacheLimit == 5000

GridLines(tc, chunkX) ==
  { chunkX * tc.segments + x - tc.overlap :
      x \in 0..(segmentsWithOverlap(tc) - 1) }

\* Math.round(x * 1000) for the noise coordinate of grid line m at an octave.
GridKey(tc, m, octave) ==
  LET numerator == (2 ^ octave) * m * tc.chunkSize * tc.noiseScale
      denominator == tc.segments * 1000
  IN (2 * numerator + denominator) \div (2 * denominator)

ChunkKeys(tc, c, octave) ==
  { << GridKey(tc, mx, octave), GridKey(tc, mz, octave) >> :
      mx \in GridLines(tc, c[1]), mz \in GridLines(tc, c[2]) }

\* With segments = 0 xFactor is Infinity and every coordinate is -Infinity,
\* NaN or Infinity: one key per combination, for the fractal result and for
\* the octaves' samples.
NoiseCacheSize(chunks, tc) ==
  IF chunks = {} THEN 0
  ELSE IF tc.segments = 0
       THEN LET classes == IF tc.overlap >= 1 THEN 3 ELSE 1
            IN 2 * classes * classes
       ELSE Cardinality(UNION { ChunkKeys(tc, c, 0) : c \in chunks })
              + Cardinality(UNION { ChunkKeys(tc, c, octave) :
                                      c \in chunks, octave \in 0..3 })

\* Grid lines are at least one key apart.
KeysApart(tc) ==
  tc.segments > 0 /\ tc.chunkSize * tc.noiseScale >= tc.segments * 1000

\* At least the fractal key and the first octave's key of the vertices no
\* neighbour shares, at most five keys for every vertex.
NoiseCacheAtLeast(chunks, tc) ==
  IF KeysApart(tc) THEN 2 * Cardinality(chunks) * tc.segments * tc.segments
                   ELSE 0

NoiseCacheAtMost(chunks, tc) ==
  5 * Cardinality(chunks) * segmentsWithOverlap(tc) * segmentsWithOverlap(tc)

\* noiseGenerator.noiseCache.size > 5000, counted only where the two
\* estimates do not settle it.
NoiseCacheExceeds(chunks, tc) ==
  IF NoiseCacheAtLeast(chunks, tc) > NoiseCacheLimit THEN TRUE
  ELSE IF NoiseCacheAtMost(chunks, tc) <= NoiseCacheLimit THEN FALSE
  ELSE NoiseCacheSize(chunks, tc) > NoiseCacheLimit

\* ------------------------------------------------------------ the engine
\* The engine's mutable world as one value, so that the code's functions can
\* be composed in the order the code calls them.
Engine ==
  [ terrainChunks |-> terrainChunks, pendingChunks |-> pendingChunks,
    chunkGenerationQueue |-> chunkGenerationQueue,
    starChunksMap |-> starChunksMap,
    starChunkGenerationQueue |-> starChunkGenerationQueue,
    generatedChunks |-> generatedChunks, cameraPosition |-> cameraPosition,
    cameraTargetPosition |-> cameraTargetPosition,
    currentSpeed |-> currentSpeed,
    lastChunkUpdatePosition |-> lastChunkUpdatePosition,
    lastChunk |-> lastChunk, lastStarChunk |-> lastStarChunk,
    isInitialized |-> isInitialized, onLoadCalls |-> onLoadCalls,
    lastTick |-> lastTick, drain |-> drain, maxDisposed |-> maxDisposed,
    sampledChunks |-> sampledChunks, sinceFrame |-> sinceFrame,
    sinceTick |-> sinceTick, ticksApart |-> ticksApart,
    queuedUnder |-> queuedUnder, scene |-> scene ]

SetEngine(e) ==
  \E next \in { e } :
    /\ terrainChunks' = next.terrainChunks
    /\ pendingChunks' = next.pendingChunks
    /\ chunkGenerationQueue' = next.chunkGenerationQueue
    /\ starChunksMap' = next.starChunksMap
    /\ starChunkGenerationQueue' = next.starChunkGenerationQueue
    /\ generatedChunks' = next.generatedChunks
    /\ cameraPosition' = next.cameraPosition
    /\ cameraTargetPosition' = next.cameraTargetPosition
    /\ currentSpeed' = next.currentSpeed
    /\ lastChunkUpdatePosition' = next.lastChunkUpdatePosition
    /\ lastChunk' = next.lastChunk
    /\ lastStarChunk' = next.lastStarChunk
    /\ isInitialized' = next.isInitialized
    /\ onLoadCalls' = next.onLoadCalls
    /\ lastTick' = next.lastTick
    /\ drain' = next.drain
    /\ maxDisposed' = next.maxDisposed
    /\ sampledChunks' = next.sampledChunks
    /\ sinceFrame' = next.sinceFrame
    /\ sinceTick' = next.sinceTick
    /\ ticksApart' = next.ticksApart
    /\ queuedUnder' = next.queuedUnder
    /\ scene' = next.scene

\* The scene children that are the chunks of a Map.
Primitives(kind, m) == { << kind, c >> : c \in DOMAIN m }

\* geometry.dispose() on every chunk of a Map: the chunks afterwards, and the
\* largest count of calls any chunk has then received, n being the largest
\* before.
DisposeEach(m) == [ k \in DOMAIN m |-> [ m[k] EXCEPT !.disposed = @ + 1 ] ]
MostDisposed(n, m) ==
  LET counts == { n } \cup { m[k].disposed : k \in DOMAIN m }
  IN CHOOSE x \in counts : \A y \in counts : y <= x

\* What a frame did: the coordinates it shifted off each queue, whether it
\* recomputed the visible chunks of each grid, and what that appended to the
\* queue and removed from the live collection.
NoTick == [ drainedT |-> << >>, drainedS |-> << >>,
            updT |-> FALSE, updS |-> FALSE,
            appendedT |-> << >>, appendedS |-> << >>,
            evictedT |-> {}, evictedS |-> {} ]

\* Per queue: its length when it was last seeded, the frames that drained it
\* since, and whether a recomputation appended to it since (the counts are
\* dropped once one did).
Seeded(n) == [ seed |-> n, ticks |-> 0, enq |-> FALSE ]
Drained(d) == IF d.enq THEN d ELSE [ d EXCEPT !.ticks = @ + 1 ]
Enqueued(d, appended) ==
  IF appended = << >> THEN d ELSE [ seed |-> 0, ticks |-> 0, enq |-> TRUE ]

\* Variant: the left edge runs up to the top row and repeats its corner.
SpiralLayer_ClosedLeft(layer) ==
  [ i \in 1..(2 * layer + 1) |-> << i - 1 - layer, 0 - layer >> ]
  \o [ i \in 1..(2 * layer) |-> << layer, i - layer >> ]
  \o [ i \in 1..(2 * layer) |-> << layer - i, layer >> ]
  \o [ i \in 1..(2 * layer) |-> << 0 - layer, layer - i >> ]

\* generateSpiralOrder: (0,0), then each layer's top, right, bottom and left
\* edge.
SpiralLayer(layer) ==
  [ i \in 1..(2 * layer + 1) |-> << i - 1 - layer, 0 - layer >> ]
  \o [ i \in 1..(2 * layer) |-> << layer, i - layer >> ]
  \o [ i \in 1..(2 * layer) |-> << layer - i, layer >> ]
  \o [ i \in 1..(2 * layer - 1) |-> << 0 - layer, layer - i >> ]

RECURSIVE SpiralFrom(_, _)
SpiralFrom(layer, renderDistance) ==
  IF layer > renderDistance THEN << >>
  ELSE SpiralLayer(layer) \o SpiralFrom(layer + 1, renderDistance)

generateSpiralOrder(renderDistance) ==
  << << 0, 0 >> >> \o SpiralFrom(1, renderDistance)

\* Variant: every offset of the square passes.
ScanOffsets_Square(renderDistance) ==
  LET w == 2 * renderDistance + 1
  IN [ k \in 1..(w * w) |->
         << ((k - 1) \div w) - renderDistance,
            ((k - 1) % w) - renderDistance >> ]

\* The offsets the two nested loops of updateVisibleChunks visit, in loop
\* order (offsetX outer, offsetZ inner), that pass the squared-distance test.
ScanOffsets(renderDistance) ==
  LET w == 2 * renderDistance + 1
      all == [ k \in 1..(w * w) |->
                 << ((k - 1) \div w) - renderDistance,
                    ((k - 1) % w) - renderDistance >> ]
      inside(o) == o[1] * o[1] + o[2] * o[2] <= renderDistance * renderDistance
  IN SelectSeq(all, inside)

Shift(offsets, centre) ==
  [ i \in DOMAIN offsets |->
      << centre[1] + offsets[i][1], centre[2] + offsets[i][2] >> ]

\* The loop body shared by the queue fillers: push every coordinate that is
\* neither live nor pending, and mark it pending.  q = [queue, pending].
RECURSIVE PushMissing(_, _, _, _)
PushMissing(coords, i, live, q) ==
  IF i > Len(coords) THEN q
  ELSE LET c == coords[i] IN
       IF c \notin live /\ c \notin q.pending
       THEN PushMissing(coords, i + 1, live,
                        [ queue |-> Append(q.queue, c),
                          pending |-> q.pending \cup {c} ])
       ELSE PushMissing(coords, i + 1, live, q)

\* Variant: the pending set is not cleared before seeding.
initializeChunkQueue_KeepPending(e, tc) ==
  LET centre == ChunkOf(e.cameraPosition, tc.chunkSize)
      q == PushMissing(Shift(generateSpiralOrder(tc.renderDistance), centre),
                       1, DOMAIN e.terrainChunks,
                       [ queue |-> << >>, pending |-> e.pendingChunks ])
  IN [ e EXCEPT !.chunkGenerationQueue = q.queue, !.pendingChunks = q.pending,
                !.drain.T = Seeded(Len(q.queue)) ]

initializeChunkQueue(e, tc) ==
  LET centre == ChunkOf(e.cameraPosition, tc.chunkSize)
      q == PushMissing(Shift(generateSpiralOrder(tc.renderDistance), centre),
                       1, DOMAIN e.terrainChunks,
                       [ queue |-> << >>, pending |-> {} ])
  IN [ e EXCEPT !.chunkGenerationQueue = q.queue, !.pendingChunks = q.pending,
                !.queuedUnder.T =
                   IF q.queue = << >> THEN {}
                   ELSE { Restricted(tc, TerrainRestartProps) },
                !.drain.T = Seeded(Len(q.queue)) ]

initializeStarChunkQueue(e, sc) ==
  LET centre == ChunkOf(e.cameraPosition, sc.chunkSize)
      q == PushMissing(Shift(generateSpiralOrder(sc.renderDistance), centre),
                       1, DOMAIN e.starChunksMap,
                       [ queue |-> << >>, pending |-> {} ])
  IN [ e EXCEPT !.starChunkGenerationQueue = q.queue,
                !.queuedUnder.S =
                   IF q.queue = << >> THEN {}
                   ELSE { Restricted(sc, StarRestartProps) },
                !.drain.S = Seeded(Len(q.queue)) ]

getTerrainChunk(e, tc, c) ==
  IF c \in DOMAIN e.terrainChunks THEN e
  ELSE [ e EXCEPT !.pendingChunks = @ \ {c},
                  !.terrainChunks =
                     MapSet(@, c, [ config |-> Restricted(tc, TerrainRestartProps),
                                    disposed |-> 0 ]),
                  !.generatedChunks = @ + 1,
                  !.sampledChunks = @ \cup {c},
                  !.scene = @ \cup { << "T", c >> } ]

getStarChunk(e, sc, c) ==
  IF c \in DOMAIN e.starChunksMap THEN e
  ELSE [ e EXCEPT !.starChunksMap =
                     MapSet(@, c, [ visible |-> sc.enabled,
                                    config |-> Restricted(sc, StarRestartProps),
                                    disposed |-> 0 ]),
                  !.scene = @ \cup { << "S", c >> } ]

\* Variant: the loop pops the tail of the queue instead of shifting its head.
RECURSIVE TerrainBatchLoop_Lifo(_, _, _)
TerrainBatchLoop_Lifo(e, tc, n) ==
  IF n = 0 \/ e.chunkGenerationQueue = << >> THEN e
  ELSE LET nextChunk == e.chunkGenerationQueue[Len(e.chunkGenerationQueue)]
           popped == [ e EXCEPT
                         !.chunkGenerationQueue = SubSeq(@, 1, Len(@) - 1),
                         !.lastTick.drainedT = Append(@, nextChunk) ]
       IN TerrainBatchLoop_Lifo(getTerrainChunk(popped, tc, nextChunk), tc, n - 1)

\* The for loop of generateChunkBatch: shift the head, build it.
RECURSIVE TerrainBatchLoop(_, _, _)
TerrainBatchLoop(e, tc, n) ==
  IF n = 0 \/ e.chunkGenerationQueue = << >> THEN e
  ELSE LET nextChunk == Head(e.chunkGenerationQueue)
           shifted == [ e EXCEPT !.chunkGenerationQueue = Tail(@),
                                 !.lastTick.drainedT = Append(@, nextChunk) ]
       IN TerrainBatchLoop(getTerrainChunk(shifted, tc, nextChunk), tc, n - 1)

\* Variant: the scene counts as ready only above initialChunks.
generateChunkBatch_Above(e, tc, isInit) ==
  LET batchSize == Min(tc.chunkGenerationBatchSize, Len(e.chunkGenerationQueue))
      done == [ TerrainBatchLoop(e, tc, batchSize)
                  EXCEPT !.drain.T = Drained(@) ]
  IN IF batchSize = 0 THEN e
     ELSE IF ~isInit /\ done.generatedChunks > tc.initialChunks
          THEN [ done EXCEPT !.isInitialized = TRUE,
                             !.onLoadCalls = Min(@ + 1, MaxOnLoad) ]
          ELSE done

\* isInit is the isInitialized the effect's closure holds.
generateChunkBatch(e, tc, isInit) ==
  LET batchSize == Min(tc.chunkGenerationBatchSize, Len(e.chunkGenerationQueue))
      done == [ TerrainBatchLoop(e, tc, batchSize)
                  EXCEPT !.drain.T = Drained(@),
                         !.queuedUnder.T =
                            IF batchSize = Len(e.chunkGenerationQueue)
                            THEN {} ELSE @ ]
  IN IF batchSize = 0 THEN e
     ELSE IF ~isInit /\ done.generatedChunks >= tc.initialChunks
          THEN [ done EXCEPT !.isInitialized = TRUE,
                             !.onLoadCalls = Min(@ + 1, MaxOnLoad) ]
          ELSE done

RECURSIVE StarBatchLoop(_, _, _)
StarBatchLoop(e, sc, n) ==
  IF n = 0 \/ e.starChunkGenerationQueue = << >> THEN e
  ELSE LET nextChunk == Head(e.starChunkGenerationQueue)
           shifted == [ e EXCEPT !.starChunkGenerationQueue = Tail(@),
                                 !.lastTick.drainedS = Append(@, nextChunk) ]
       IN StarBatchLoop(getStarChunk(shifted, sc, nextChunk), sc, n - 1)

\* Variant: the batch takes one entry more than chunkGenerationBatchSize.
generateStarChunkBatch_OneMore(e, sc) ==
  LET batchSize == Min(sc.chunkGenerationBatchSize + 1,
                       Len(e.starChunkGenerationQueue))
  IN IF batchSize = 0 THEN e
     ELSE [ StarBatchLoop(e, sc, batchSize) EXCEPT !.drain.S = Drained(@) ]

generateStarChunkBatch(e, sc) ==
  LET batchSize == Min(sc.chunkGenerationBatchSize,
                       Len(e.starChunkGenerationQueue))
  IN IF batchSize = 0 THEN e
     ELSE [ StarBatchLoop(e, sc, batchSize)
              EXCEPT !.drain.S = Drained(@),
                     !.queuedUnder.S =
                        IF batchSize = Len(e.starChunkGenerationQueue)
                        THEN {} ELSE @ ]

\* Variant: a coordinate that is already pending is pushed again.
updateVisibleChunks_NoPendingLookup(e, tc) ==
  LET centre == ChunkOf(e.cameraTargetPosition, tc.chunkSize)
      required == Shift(ScanOffsets(tc.renderDistance), centre)
      q == PushMissing(required, 1, DOMAIN e.terrainChunks,
                       [ queue |-> e.chunkGenerationQueue, pending |-> {} ])
      appended == SubSeq(q.queue, Len(e.chunkGenerationQueue) + 1, Len(q.queue))
  IN [ e EXCEPT !.chunkGenerationQueue = q.queue,
                !.pendingChunks = @ \cup q.pending,
                !.terrainChunks = MapKeep(@, Range(required)),
                !.scene = @ \ { << "T", c >> :
                                 c \in DOMAIN e.terrainChunks \ Range(required) },
                !.lastTick.updT = TRUE,
                !.lastTick.appendedT = appended,
                !.lastTick.evictedT = DOMAIN e.terrainChunks \ Range(required),
                !.drain.T = Enqueued(@, appended) ]

\* Variant: chunks outside the required set are left alive.
updateVisibleChunks_NoEvict(e, tc) ==
  LET centre == ChunkOf(e.cameraTargetPosition, tc.chunkSize)
      required == Shift(ScanOffsets(tc.renderDistance), centre)
      q == PushMissing(required, 1, DOMAIN e.terrainChunks,
                       [ queue |-> e.chunkGenerationQueue,
                         pending |-> e.pendingChunks ])
      appended == SubSeq(q.queue, Len(e.chunkGenerationQueue) + 1, Len(q.queue))
  IN [ e EXCEPT !.chunkGenerationQueue = q.queue,
                !.pendingChunks = q.pending,
                !.lastTick.updT = TRUE,
                !.lastTick.appendedT = appended,
                !.lastTick.evictedT = DOMAIN e.terrainChunks \ Range(required),
                !.drain.T = Enqueued(@, appended) ]

\* Variant: the recomputation also drops the queued coordinates that left
\* the required set.
updateVisibleChunks_PruneQueue(e, tc) ==
  LET centre == ChunkOf(e.cameraTargetPosition, tc.chunkSize)
      required == Shift(ScanOffsets(tc.renderDistance), centre)
      q == PushMissing(required, 1, DOMAIN e.terrainChunks,
                       [ queue |-> e.chunkGenerationQueue,
                         pending |-> e.pendingChunks ])
      appended == SubSeq(q.queue, Len(e.chunkGenerationQueue) + 1, Len(q.queue))
      IsRequired(c) == c \in Range(required)
  IN [ e EXCEPT !.chunkGenerationQueue = SelectSeq(q.queue, IsRequired),
                !.pendingChunks = q.pending,
                !.terrainChunks = MapKeep(@, Range(required)),
                !.scene = @ \ { << "T", c >> :
                                 c \in DOMAIN e.terrainChunks \ Range(required) },
                !.lastTick.updT = TRUE,
                !.lastTick.appendedT = appended,
                !.lastTick.evictedT = DOMAIN e.terrainChunks \ Range(required),
                !.drain.T = Enqueued(@, appended) ]

updateVisibleChunks(e, tc) ==
  LET centre == ChunkOf(e.cameraTargetPosition, tc.chunkSize)
      required == Shift(ScanOffsets(tc.renderDistance), centre)
      q == PushMissing(required, 1, DOMAIN e.terrainChunks,
                       [ queue |-> e.chunkGenerationQueue,
                         pending |-> e.pendingChunks ])
      appended == SubSeq(q.queue, Len(e.chunkGenerationQueue) + 1, Len(q.queue))
      evicted == MapKeep(e.terrainChunks, DOMAIN e.terrainChunks \ Range(required))
  IN [ e EXCEPT !.chunkGenerationQueue = q.queue,
                !.pendingChunks = q.pending,
                !.terrainChunks = MapKeep(@, Range(required)),
                !.scene = @ \ { << "T", c >> :
                                 c \in DOMAIN e.terrainChunks \ Range(required) },
                !.maxDisposed = MostDisposed(@, DisposeEach(evicted)),
                !.sampledChunks =
                   IF e.generatedChunks % 10 = 0 /\ NoiseCacheExceeds(@, tc)
                   THEN {} ELSE @,
                !.lastTick.updT = TRUE,
                !.lastTick.appendedT = appended,
                !.lastTick.evictedT = DOMAIN e.terrainChunks \ Range(required),
                !.queuedUnder.T =
                   IF appended = << >> THEN @
                   ELSE @ \cup { Restricted(tc, TerrainRestartProps) },
                !.drain.T = Enqueued(@, appended) ]

\* Variant: the key is not looked up in the queue.
updateVisibleStarChunks_NoQueueLookup(e, sc) ==
  LET centre == ChunkOf(e.cameraTargetPosition, sc.chunkSize)
      required == Shift(ScanOffsets(sc.renderDistance), centre)
      q == PushMissing(required, 1, DOMAIN e.starChunksMap,
                       [ queue |-> e.starChunkGenerationQueue,
                         pending |-> {} ])
      appended == SubSeq(q.queue, Len(e.starChunkGenerationQueue) + 1,
                         Len(q.queue))
  IN [ e EXCEPT !.starChunkGenerationQueue = q.queue,
                !.starChunksMap = MapKeep(@, Range(required)),
                !.scene = @ \ { << "S", c >> :
                                 c \in DOMAIN e.starChunksMap \ Range(required) },
                !.lastTick.updS = TRUE,
                !.lastTick.appendedS = appended,
                !.lastTick.evictedS = DOMAIN e.starChunksMap \ Range(required),
                !.drain.S = Enqueued(@, appended) ]

\* updateVisibleStarChunks has no pending set of its own that outlives the
\* call: it starts from an empty one and also looks the key up in the queue.
updateVisibleStarChunks(e, sc) ==
  LET centre == ChunkOf(e.cameraTargetPosition, sc.chunkSize)
      required == Shift(ScanOffsets(sc.renderDistance), centre)
      q == PushMissing(required, 1,
                       DOMAIN e.starChunksMap
                         \cup Range(e.starChunkGenerationQueue),
                       [ queue |-> e.starChunkGenerationQueue,
                         pending |-> {} ])
      appended == SubSeq(q.queue, Len(e.starChunkGenerationQueue) + 1,
                         Len(q.queue))
      evicted == MapKeep(e.starChunksMap, DOMAIN e.starChunksMap \ Range(required))
  IN [ e EXCEPT !.starChunkGenerationQueue = q.queue,
                !.starChunksMap = MapKeep(@, Range(required)),
                !.scene = @ \ { << "S", c >> :
                                 c \in DOMAIN e.starChunksMap \ Range(required) },
                !.maxDisposed = MostDisposed(@, DisposeEach(evicted)),
                !.lastTick.updS = TRUE,
                !.lastTick.appendedS = appended,
                !.lastTick.evictedS = DOMAIN e.starChunksMap \ Range(required),
                !.queuedUnder.S =
                   IF appended = << >> THEN @
                   ELSE @ \cup { Restricted(sc, StarRestartProps) },
                !.drain.S = Enqueued(@, appended) ]

\* Variant: the last update position is not moved to the camera target.
animate_KeepUpdatePosition(e, tc, sc, isInit) ==
  LET start == [ e EXCEPT !.lastTick = NoTick ]
      drained ==
        IF Len(start.chunkGenerationQueue) > 0
        THEN generateChunkBatch(start, tc, isInit)
        ELSE IF Len(start.starChunkGenerationQueue) > 0
             THEN generateStarChunkBatch(start, sc)
             ELSE start
      speed == Lerp(drained.currentSpeed, tc.moveSpeed, 2, 100)
      target == << drained.cameraTargetPosition[1] + speed[1],
                   drained.cameraTargetPosition[2] + speed[2] >>
      moved == [ drained EXCEPT
                   !.currentSpeed = speed,
                   !.cameraTargetPosition = target,
                   !.cameraPosition = Lerp(@, target, 5, 100) ]
      dx == Abs(target[1] - moved.lastChunkUpdatePosition[1])
      dz == Abs(target[2] - moved.lastChunkUpdatePosition[2])
      cameraChunk == ChunkOf(target, tc.chunkSize)
      starChunk == ChunkOf(target, sc.chunkSize)
      terrainDone ==
        IF cameraChunk # moved.lastChunk
        THEN [ updateVisibleChunks(moved, tc) EXCEPT !.lastChunk = cameraChunk ]
        ELSE moved
      starDone ==
        IF starChunk # terrainDone.lastStarChunk
        THEN [ updateVisibleStarChunks(terrainDone, sc)
                 EXCEPT !.lastStarChunk = starChunk ]
        ELSE terrainDone
  IN IF dx > tc.updateThreshold \/ dz > tc.updateThreshold
     THEN starDone
     ELSE moved

\* Variant: a frame drains the star queue whatever the terrain queue holds.
animate_BothQueues(e, tc, sc, isInit) ==
  LET start == [ e EXCEPT !.lastTick = NoTick ]
      drained ==
        generateStarChunkBatch(generateChunkBatch(start, tc, isInit), sc)
      speed == Lerp(drained.currentSpeed, tc.moveSpeed, 2, 100)
      target == << drained.cameraTargetPosition[1] + speed[1],
                   drained.cameraTargetPosition[2] + speed[2] >>
      moved == [ drained EXCEPT
                   !.currentSpeed = speed,
                   !.cameraTargetPosition = target,
                   !.cameraPosition = Lerp(@, target, 5, 100) ]
      dx == Abs(target[1] - moved.lastChunkUpdatePosition[1])
      dz == Abs(target[2] - moved.lastChunkUpdatePosition[2])
      cameraChunk == ChunkOf(target, tc.chunkSize)
      starChunk == ChunkOf(target, sc.chunkSize)
      marked == [ moved EXCEPT !.lastChunkUpdatePosition = target ]
      terrainDone ==
        IF cameraChunk # marked.lastChunk
        THEN [ updateVisibleChunks(marked, tc) EXCEPT !.lastChunk = cameraChunk ]
        ELSE marked
      starDone ==
        IF starChunk # terrainDone.lastStarChunk
        THEN [ updateVisibleStarChunks(terrainDone, sc)
                 EXCEPT !.lastStarChunk = starChunk ]
        ELSE terrainDone
  IN IF dx > tc.updateThreshold \/ dz > tc.updateThreshold
     THEN starDone
     ELSE moved

\* One processed frame of animate.  tc, sc and isInit are the values the
\* effect's closure holds.
animate(e, tc, sc, isInit) ==
  LET start == [ e EXCEPT !.lastTick = NoTick ]
      drained ==
        IF Len(start.chunkGenerationQueue) > 0
        THEN generateChunkBatch(start, tc, isInit)
        ELSE IF Len(start.starChunkGenerationQueue) > 0
             THEN generateStarChunkBatch(start, sc)
             ELSE start
      speed == Lerp(drained.currentSpeed, tc.moveSpeed, 2, 100)
      target == << drained.cameraTargetPosition[1] + speed[1],
                   drained.cameraTargetPosition[2] + speed[2] >>
      moved == [ drained EXCEPT
                   !.currentSpeed = speed,
                   !.cameraTargetPosition = target,
                   !.cameraPosition = Lerp(@, target, 5, 100) ]
      dx == Abs(target[1] - moved.lastChunkUpdatePosition[1])
      dz == Abs(target[2] - moved.lastChunkUpdatePosition[2])
      cameraChunk == ChunkOf(target, tc.chunkSize)
      starChunk == ChunkOf(target, sc.chunkSize)
      marked == [ moved EXCEPT !.lastChunkUpdatePosition = target ]
      terrainDone ==
        IF cameraChunk # marked.lastChunk
        THEN [ updateVisibleChunks(marked, tc) EXCEPT !.lastChunk = cameraChunk ]
        ELSE marked
      starDone ==
        IF starChunk # terrainDone.lastStarChunk
        THEN [ updateVisibleStarChunks(terrainDone, sc)
                 EXCEPT !.lastStarChunk = starChunk ]
        ELSE terrainDone
  IN IF dx > tc.updateThreshold \/ dz > tc.updateThreshold
     THEN starDone
     ELSE moved

\* 1000 / 30 milliseconds, in thirds of a millisecond.
frameInterval == 100

\* The callback requestAnimationFrame runs, gap after the previous one: a
\* callback that comes before the interval is over returns at once, any
\* other takes the time and runs the frame.  lastFrameTime.current is a
\* performance.now() reading, which is above zero, so the truthiness test in
\* front of the comparison passes.
\* Variant: no limiter, every callback runs the frame.
frameCallback_Unlimited(e, gap, tc, sc, isInit) ==
  [ animate(e, tc, sc, isInit)
      EXCEPT !.sinceFrame = 0,
             !.ticksApart = Min(frameInterval, e.sinceTick + gap),
             !.sinceTick = 0 ]

frameCallback(e, gap, tc, sc, isInit) ==
  IF e.sinceFrame + gap < frameInterval
  THEN [ e EXCEPT !.sinceFrame = @ + gap, !.lastTick = NoTick,
                  !.sinceTick = Min(frameInterval, @ + gap) ]
  ELSE [ animate(e, tc, sc, isInit)
           EXCEPT !.sinceFrame = 0,
                  !.ticksApart = Min(frameInterval, e.sinceTick + gap),
                  !.sinceTick = 0 ]

\* The cleanup the engine effect returns: every chunk of the run's terrain
\* Map and every chunk of the star Map is disposed and taken off the scene.
\* The terrain Map is a local of the run that ends here; the star Map is a
\* ref, nothing deletes its entries here, and the next run finds them.
Cleanup(e) ==
  [ e EXCEPT !.maxDisposed =
               MostDisposed(MostDisposed(@, DisposeEach(e.terrainChunks)),
                            DisposeEach(e.starChunksMap)),
             !.terrainChunks = DisposeEach(@),
             !.starChunksMap = DisposeEach(@),
             !.scene = @ \ (Primitives("T", e.terrainChunks)
                              \cup Primitives("S", e.starChunksMap)) ]

\* The body of the engine effect up to the start of the animation loop: a
\* fresh scene, camera, chunk map and pending set, the camera target reset,
\* both queues seeded, lastFrameTime taken.  The call of animate that
\* starts the loop comes no time after that and returns at the limiter.
SetupEngine(e, tc, sc) ==
  LET fresh == [ e EXCEPT
                   !.cameraPosition = << 0, tc.cameraDistance >>,
                   !.cameraTargetPosition = << 0, tc.cameraDistance >>,
                   !.terrainChunks = EmptyMap,
                   !.pendingChunks = {},
                   !.sampledChunks = {},
                   !.scene = {},
                   !.sinceFrame = 0 ]
  IN initializeStarChunkQueue(initializeChunkQueue(fresh, tc), sc)

\* Variant: the star chunks survive the restart.
RestartClear_KeepStars(e, tc) ==
  [ e EXCEPT !.terrainChunks = EmptyMap,
             !.scene = @ \ Primitives("T", e.terrainChunks),
             !.starChunkGenerationQueue = << >>,
             !.generatedChunks = 0,
             !.chunkGenerationQueue = << >>,
             !.queuedUnder = [ T |-> {}, S |-> {} ],
             !.drain = [ T |-> Seeded(0), S |-> Seeded(0) ],
             !.cameraPosition = << @[1], tc.cameraDistance >>,
             !.cameraTargetPosition = << @[1], tc.cameraDistance >> ]

\* restartTerrain up to "Re-initialize chunks".
RestartClear(e, tc) ==
  [ e EXCEPT !.terrainChunks = EmptyMap,
             !.starChunksMap = EmptyMap,
             !.scene = @ \ (Primitives("T", e.terrainChunks)
                              \cup Primitives("S", e.starChunksMap)),
             !.maxDisposed =
               MostDisposed(MostDisposed(@, DisposeEach(e.terrainChunks)),
                            DisposeEach(e.starChunksMap)),
             !.starChunkGenerationQueue = << >>,
             !.generatedChunks = 0,
             !.chunkGenerationQueue = << >>,
             !.queuedUnder = [ T |-> {}, S |-> {} ],
             !.drain = [ T |-> Seeded(0), S |-> Seeded(0) ],
             !.cameraPosition = << @[1], tc.cameraDistance >>,
             !.cameraTargetPosition = << @[1], tc.cameraDistance >> ]

\* restartTerrain from "Re-initialize chunks" on.
RestartReseed(e, tc, sc) ==
  initializeStarChunkQueue(initializeChunkQueue(e, tc), sc)

restartTerrain(e, tc, sc) == RestartReseed(RestartClear(e, tc), tc, sc)

\* A live-apply effect that also recomputes the visible terrain chunks.
LiveApply_Recompute(e, tc, sc) ==
  updateVisibleChunks(
    [ e EXCEPT !.starChunksMap =
                 [ k \in DOMAIN @ |-> [ @[k] EXCEPT !.visible = sc.enabled ] ],
               !.cameraTargetPosition = << @[1], tc.cameraDistance >> ],
    tc)

\* The live-apply effect: star chunks take the current visibility, the camera
\* target takes the configured distance.
LiveApply(e, tc, sc) ==
  [ e EXCEPT !.starChunksMap =
               [ k \in DOMAIN @ |-> [ @[k] EXCEPT !.visible = sc.enabled ] ],
             !.cameraTargetPosition = << @[1], tc.cameraDistance >> ]

\* ------------------------------------------------------------- inputs
\* What localStorage may hold for the fields no control edits: small chunks
\* that the camera crosses within a few frames and a batch of several chunks.
StoredPreferences ==
  { [ present |-> TRUE,
      terrainConfig |->
        [ chunkSize |-> c[1], noiseScale |-> 60000, updateThreshold |-> 4,
          renderDistance |-> r,
          chunkGenerationBatchSize |-> c[3], initialChunks |-> 3 ],
      starConfig |->
        [ chunkSize |-> c[2], renderDistance |-> r,
          chunkGenerationBatchSize |-> c[3] ] ] :
      r \in { 1, MaxRenderDistance },
      c \in { << 10, 15, MaxBatch >> } }

\* localStorage without the entry.
NothingStored == [ present |-> FALSE ]

\* An entry JSON.parse throws on.
MalformedEntry == [ present |-> TRUE, text |-> "{" ]

Parses(stored) == "text" \notin DOMAIN stored

\* a record overlaid on another ({...prev, ...saved})
Merge(prev, saved) ==
  [ f \in DOMAIN prev |-> IF f \in DOMAIN saved THEN saved[f] ELSE prev[f] ]

\* JSON.stringify of a THREE.Vector3 writes an object of its components;
\* the load effect builds a Vector3 from that object's x, y and z.
Vector3ToJSON(v) == [ x |-> v[1], y |-> 0, z |-> v[2] ]
\* the components taken in the wrong order
Vector3FromJSON_Swapped(o) == << o.z, o.x >>
Vector3FromJSON(o) == << o.x, o.z >>

\* The fields savePreferences copies out of the terrain configuration.
PersistedTerrainFields ==
  { "chunkSize", "segments", "renderDistance", "overlap", "updateThreshold",
    "heightScale", "noiseScale", "fogNear", "fogFar", "moveSpeed",
    "initialChunks", "chunkGenerationBatchSize", "wireframe",
    "wireframeOpacity", "antialias", "pixelRatio", "terrainColor" }

\* savePreferences with its three optional arguments resolved: what
\* JSON.stringify writes under the key.
savePreferences(tc, sc, quality) ==
  [ present |-> TRUE,
    terrainConfig |->
      [ f \in PersistedTerrainFields |->
          IF f = "moveSpeed" THEN Vector3ToJSON(tc[f]) ELSE tc[f] ],
    starConfig |-> sc,
    currentQuality |-> quality ]

\* The terrain configuration the load effect sets: the stored fields over
\* the previous ones, moveSpeed rebuilt, the camera fields from the defaults.
LoadedTerrainConfig(prev, saved) ==
  [ f \in DOMAIN prev |->
      IF f \in { "cameraHeight", "cameraDistance" }
      THEN DEFAULT_TERRAIN_CONFIG[f]
      ELSE IF f \notin DOMAIN saved THEN prev[f]
      ELSE IF f = "moveSpeed" THEN Vector3FromJSON(saved[f])
      ELSE saved[f] ]

\* What the load effect makes of the stored entry and the state it runs in:
\* each part of the entry that is there replaces or overlays its state.
\* JSON.parse runs before any state is set, so an entry it throws on leaves
\* the state as it is.
loadPreferences(stored, tc, sc, quality) ==
  [ terrainConfig |->
      IF stored.present /\ Parses(stored) /\ "terrainConfig" \in DOMAIN stored
      THEN LoadedTerrainConfig(tc, stored.terrainConfig)
      ELSE tc,
    starConfig |->
      IF stored.present /\ Parses(stored) /\ "starConfig" \in DOMAIN stored
      THEN Merge(sc, stored.starConfig)
      ELSE sc,
    currentQuality |->
      IF stored.present /\ Parses(stored) /\ "currentQuality" \in DOMAIN stored
      THEN stored.currentQuality
      ELSE quality ]

\* The values the settings panel, or any caller of the handler, passes.
\* For the other settings the handler is called with the value shown.
TerrainValues(tc, property) ==
  CASE property = "renderDistance" -> 2..MaxRenderDistance
    [] property = "segments" -> { 0 }
    [] property = "cameraDistance" -> { 20000 }
    [] property = "wireframe" -> { FALSE }
    [] OTHER -> { tc[property] }

StarValues(sc, property) ==
  CASE property = "starsPerChunk" -> { 60 }
    [] property = "enabled" -> { FALSE }
    [] OTHER -> { sc[property] }

NoEdit == [ domain |-> "none", property |-> "none" ]

\* The user edits a setting at most MaxEdits times.
CanEdit == pc = "idle" /\ preferencesLoaded /\ edits < MaxEdits

Presets == { p \in DOMAIN QUALITY_PRESETS :
               QUALITY_PRESETS[p].renderDistance <= MaxRenderDistance }

\* ------------------------------------------------------------ behaviour
\* The state the component is mounted in.
Mounted ==
  /\ starConfig = DEFAULT_STAR_CONFIG
  /\ currentQuality = "medium"
  /\ needsRestart = FALSE
  /\ preferencesLoaded = FALSE
  /\ isInitialized = FALSE
  /\ effect = [ active |-> FALSE, terrainConfig |-> DEFAULT_TERRAIN_CONFIG,
                starConfig |-> DEFAULT_STAR_CONFIG, isInitialized |-> FALSE,
                needsRestart |-> FALSE ]
  /\ terrainChunks = EmptyMap
  /\ pendingChunks = {}
  /\ chunkGenerationQueue = << >>
  /\ starChunksMap = EmptyMap
  /\ starChunkGenerationQueue = << >>
  /\ generatedChunks = 0
  /\ cameraPosition = << 0, DEFAULT_TERRAIN_CONFIG.cameraDistance >>
  /\ cameraTargetPosition = << 0, DEFAULT_TERRAIN_CONFIG.cameraDistance >>
  /\ currentSpeed = << 0, 0 >>
  /\ lastChunkUpdatePosition = << 0, 0 >>
  /\ lastChunk = << 0, 0 >>
  /\ lastStarChunk = << 0, 0 >>
  /\ pc = "idle"
  /\ onLoadCalls = 0
  /\ lastOp = "mount"
  /\ lastTick = NoTick
  /\ drain = [ T |-> Seeded(0), S |-> Seeded(0) ]
  /\ maxDisposed = 0
  /\ edits = 0
  /\ lastEdit = NoEdit
  /\ snackbar = {}
  /\ noiseCache = EmptyMap
  /\ sampledChunks = {}
  /\ heightfields = EmptyMap
  /\ calls = 0
  /\ sinceFrame = 0
  /\ sinceTick = frameInterval
  /\ ticksApart = frameInterval
  /\ queuedUnder = [ T |-> {}, S |-> {} ]
  /\ scene = {}

Init ==
  /\ Mounted
  /\ terrainConfig = DEFAULT_TERRAIN_CONFIG
  /\ localStorage \in { NothingStored, MalformedEntry } \cup StoredPreferences
  /\ permutationTable = [ i \in 0..(TableSize - 1) |-> i ]
  /\ storageFull = FALSE
  /\ frameGaps = { frameInterval }

ReactUnchanged ==
  /\ UNCHANGED << terrainConfig, starConfig, currentQuality, needsRestart,
                  preferencesLoaded, edits, localStorage, snackbar >>
  /\ lastEdit' = NoEdit

EngineUnchanged ==
  UNCHANGED << terrainChunks, pendingChunks, chunkGenerationQueue,
               starChunksMap, starChunkGenerationQueue, generatedChunks,
               cameraPosition, cameraTargetPosition, currentSpeed,
               lastChunkUpdatePosition, lastChunk, lastStarChunk,
               isInitialized, onLoadCalls, drain, maxDisposed,
               sampledChunks, sinceFrame, sinceTick, ticksApart,
               queuedUnder, scene >>

\* Spec follows the cache by the chunks sampled into it and does not follow
\* single noise values.
NoiseUnchanged ==
  UNCHANGED << permutationTable, noiseCache, calls, heightfields >>

\* Nothing the component does changes what the browser's storage accepts
\* or how often the display calls back.
BrowserUnchanged == UNCHANGED << storageFull, frameGaps >>

\* The end of savePreferences: setItem inside try, the catch block that
\* reports what it threw.  Nothing is thrown on to the caller.
PersistPreferences(prefs) ==
  /\ localStorage' = IF storageFull THEN localStorage ELSE prefs
  /\ snackbar' = IF storageFull THEN snackbar \cup { "save" } ELSE snackbar

\* A load effect whose catch block shows the error and leaves the flag.
LoadPreferences_FlagOnlyOnSuccess ==
  /\ ~preferencesLoaded
  /\ LET loaded == loadPreferences(localStorage, terrainConfig, starConfig,
                                    currentQuality)
     IN /\ terrainConfig' = loaded.terrainConfig
        /\ starConfig' = loaded.starConfig
        /\ currentQuality' = loaded.currentQuality
  /\ snackbar' = IF localStorage.present /\ ~Parses(localStorage)
                 THEN snackbar \cup { "load" }
                 ELSE snackbar
  /\ preferencesLoaded' = (~localStorage.present \/ Parses(localStorage))
  /\ lastOp' = "load"
  /\ lastTick' = NoTick
  /\ lastEdit' = NoEdit
  /\ UNCHANGED << needsRestart, effect, pc, edits, localStorage >>
  /\ EngineUnchanged
  /\ NoiseUnchanged
  /\ BrowserUnchanged

\* The mount effect that reads localStorage: nothing stored, an entry that
\* does not parse (the catch block reports it), or a stored object whose
\* parts overlay the state.  The flag is set in each case.
LoadPreferences ==
  /\ ~preferencesLoaded
  /\ LET loaded == loadPreferences(localStorage, terrainConfig, starConfig,
                                    currentQuality)
     IN /\ terrainConfig' = loaded.terrainConfig
        /\ starConfig' = loaded.starConfig
        /\ currentQuality' = loaded.currentQuality
  /\ snackbar' = IF localStorage.present /\ ~Parses(localStorage)
                 THEN snackbar \cup { "load" }
                 ELSE snackbar
  /\ preferencesLoaded' = TRUE
  /\ lastOp' = "load"
  /\ lastTick' = NoTick
  /\ lastEdit' = NoEdit
  /\ UNCHANGED << needsRestart, effect, pc, edits, localStorage >>
  /\ EngineUnchanged
  /\ NoiseUnchanged
  /\ BrowserUnchanged

\* The engine effect runs when one of its dependencies changed: the old run
\* is cleaned up, a new one is set up with the configuration of this render
\* and, if needsRestart is set, restartTerrain is entered.
RunEffect ==
  /\ pc = "idle"
  /\ preferencesLoaded
  /\ ~effect.active \/ effect.needsRestart # needsRestart
  /\ effect' = [ active |-> TRUE, terrainConfig |-> terrainConfig,
                 starConfig |-> starConfig, isInitialized |-> isInitialized,
                 needsRestart |-> needsRestart ]
  /\ LET up == [ SetupEngine(IF effect.active THEN Cleanup(Engine)
                                               ELSE Engine,
                              terrainConfig, starConfig)
                   EXCEPT !.lastTick = NoTick ]
     IN IF needsRestart
        THEN SetEngine(RestartClear(up, terrainConfig)) /\ pc' = "reseed"
        ELSE SetEngine(up) /\ pc' = "idle"
  /\ lastOp' = IF needsRestart THEN "clear" ELSE "setup"
  /\ ReactUnchanged
  /\ NoiseUnchanged
  /\ BrowserUnchanged

\* The rest of restartTerrain.
Reseed ==
  /\ pc = "reseed"
  /\ SetEngine(RestartReseed(Engine, effect.terrainConfig, effect.starConfig))
  /\ needsRestart' = FALSE
  /\ pc' = "idle"
  /\ lastOp' = "reseed"
  /\ UNCHANGED << terrainConfig, starConfig, currentQuality,
                  preferencesLoaded, effect, edits, localStorage,
                  snackbar >>
  /\ lastEdit' = NoEdit
  /\ NoiseUnchanged
  /\ BrowserUnchanged

\* A frame callback of the animation loop: a frame it processes ("tick") or
\* one the limiter drops ("skip").
Tick ==
  /\ pc = "idle"
  /\ effect.active
  /\ effect.needsRestart = needsRestart
  /\ cameraTargetPosition[1] < MaxTravel
  /\ \E gap \in frameGaps :
       \E done \in { frameCallback(Engine, gap, effect.terrainConfig,
                                   effect.starConfig, effect.isInitialized) } :
          /\ SetEngine(done)
          /\ lastOp' = IF done.sinceFrame = 0 THEN "tick" ELSE "skip"
  /\ UNCHANGED << effect, pc >>
  /\ ReactUnchanged
  /\ NoiseUnchanged
  /\ BrowserUnchanged

\* A handler that asks for no restart, whatever is edited.
handleTerrainConfigChange_NoRestart(property, value) ==
  /\ CanEdit
  /\ edits' = edits + 1
  /\ terrainConfig' = [ terrainConfig EXCEPT ![property] = value ]
  /\ UNCHANGED << currentQuality, needsRestart >>
  /\ PersistPreferences(savePreferences(terrainConfig', starConfig, "custom"))
  /\ IF /\ property \in TerrainLiveDeps
        /\ terrainConfig[property] # value
        /\ effect.active
     THEN SetEngine([ LiveApply(Engine, terrainConfig', starConfig)
                        EXCEPT !.lastTick = NoTick ])
     ELSE EngineUnchanged /\ lastTick' = NoTick
  /\ lastOp' = "terrainParam"
  /\ lastEdit' = [ domain |-> "terrain", property |-> property ]
  /\ UNCHANGED << starConfig, preferencesLoaded, effect, pc >>
  /\ NoiseUnchanged
  /\ BrowserUnchanged

\* A handler that saves first and gives the edit up when the save throws.
handleTerrainConfigChange_SaveFirst(property, value) ==
  /\ CanEdit
  /\ edits' = edits + 1
  /\ terrainConfig' = IF storageFull THEN terrainConfig
                      ELSE [ terrainConfig EXCEPT ![property] = value ]
  /\ IF property \in TerrainRestartProps /\ ~storageFull
     THEN currentQuality' = "custom" /\ needsRestart' = TRUE
     ELSE UNCHANGED << currentQuality, needsRestart >>
  /\ PersistPreferences(savePreferences(terrainConfig', starConfig, "custom"))
  /\ IF /\ property \in TerrainLiveDeps
        /\ terrainConfig'[property] # terrainConfig[property]
        /\ effect.active
     THEN SetEngine([ LiveApply(Engine, terrainConfig', starConfig)
                        EXCEPT !.lastTick = NoTick ])
     ELSE EngineUnchanged /\ lastTick' = NoTick
  /\ lastOp' = "terrainParam"
  /\ lastEdit' = [ domain |-> "terrain", property |-> property ]
  /\ UNCHANGED << starConfig, preferencesLoaded, effect, pc >>
  /\ NoiseUnchanged
  /\ BrowserUnchanged

\* The live-apply effect runs after the render when one of its
\* dependencies has a new value and the scene exists.
handleTerrainConfigChange(property, value) ==
  /\ CanEdit
  /\ edits' = edits + 1
  /\ terrainConfig' = [ terrainConfig EXCEPT ![property] = value ]
  /\ IF property \in TerrainRestartProps
     THEN currentQuality' = "custom" /\ needsRestart' = TRUE
     ELSE UNCHANGED << currentQuality, needsRestart >>
  /\ PersistPreferences(savePreferences(terrainConfig', starConfig, "custom"))
  /\ IF /\ property \in TerrainLiveDeps
        /\ terrainConfig[property] # value
        /\ effect.active
     THEN SetEngine([ LiveApply(Engine, terrainConfig', starConfig)
                        EXCEPT !.lastTick = NoTick ])
     ELSE EngineUnchanged /\ lastTick' = NoTick
  /\ lastOp' = "terrainParam"
  /\ lastEdit' = [ domain |-> "terrain", property |-> property ]
  /\ UNCHANGED << starConfig, preferencesLoaded, effect, pc >>
  /\ NoiseUnchanged
  /\ BrowserUnchanged

handleStarConfigChange(property, value) ==
  /\ CanEdit
  /\ edits' = edits + 1
  /\ starConfig' = [ starConfig EXCEPT ![property] = value ]
  /\ IF property \in StarRestartProps
     THEN needsRestart' = TRUE
     ELSE UNCHANGED needsRestart
  /\ PersistPreferences(savePreferences(terrainConfig, starConfig',
                                        currentQuality))
  /\ IF /\ property \in StarLiveDeps
        /\ starConfig[property] # value
        /\ effect.active
     THEN SetEngine([ LiveApply(Engine, terrainConfig, starConfig')
                        EXCEPT !.lastTick = NoTick ])
     ELSE EngineUnchanged /\ lastTick' = NoTick
  /\ lastOp' = "starParam"
  /\ lastEdit' = [ domain |-> "star", property |-> property ]
  /\ UNCHANGED << terrainConfig, currentQuality, preferencesLoaded, effect, pc >>
  /\ NoiseUnchanged
  /\ BrowserUnchanged

\* A preset handler that leaves the pixel ratio as it was.
handleQualityPresetChange_KeepPixelRatio(preset) ==
  /\ CanEdit
  /\ edits' = edits + 1
  /\ currentQuality' = preset
  /\ terrainConfig' = [ Merge(terrainConfig, QUALITY_PRESETS[preset])
                          EXCEPT !.pixelRatio = terrainConfig.pixelRatio ]
  /\ needsRestart' = TRUE
  /\ PersistPreferences(savePreferences(terrainConfig', starConfig, preset))
  /\ lastOp' = "preset"
  /\ lastEdit' = [ domain |-> "preset", property |-> preset ]
  /\ lastTick' = NoTick
  /\ UNCHANGED << starConfig, preferencesLoaded, effect, pc >>
  /\ EngineUnchanged
  /\ NoiseUnchanged
  /\ BrowserUnchanged

handleQualityPresetChange(preset) ==
  /\ CanEdit
  /\ edits' = edits + 1
  /\ currentQuality' = preset
  /\ terrainConfig' = Merge(terrainConfig, QUALITY_PRESETS[preset])
  /\ needsRestart' = TRUE
  /\ PersistPreferences(savePreferences(terrainConfig', starConfig, preset))
  /\ lastOp' = "preset"
  /\ lastEdit' = [ domain |-> "preset", property |-> preset ]
  /\ lastTick' = NoTick
  /\ UNCHANGED << starConfig, preferencesLoaded, effect, pc >>
  /\ EngineUnchanged
  /\ NoiseUnchanged
  /\ BrowserUnchanged

\* The "Reset to Defaults" button.
resetToDefaults ==
  /\ CanEdit
  /\ edits' = edits + 1
  /\ terrainConfig' = DEFAULT_TERRAIN_CONFIG
  /\ starConfig' = DEFAULT_STAR_CONFIG
  /\ currentQuality' = "medium"
  /\ needsRestart' = TRUE
  /\ PersistPreferences(savePreferences(DEFAULT_TERRAIN_CONFIG,
                                        DEFAULT_STAR_CONFIG, "medium"))
  /\ IF /\ \/ \E f \in TerrainLiveDeps :
                 terrainConfig[f] # DEFAULT_TERRAIN_CONFIG[f]
           \/ \E f \in StarLiveDeps : starConfig[f] # DEFAULT_STAR_CONFIG[f]
        /\ effect.active
     THEN SetEngine([ LiveApply(Engine, DEFAULT_TERRAIN_CONFIG,
                                DEFAULT_STAR_CONFIG)
                        EXCEPT !.lastTick = NoTick ])
     ELSE EngineUnchanged /\ lastTick' = NoTick
  /\ lastOp' = "reset"
  /\ lastEdit' = [ domain |-> "reset", property |-> "defaults" ]
  /\ UNCHANGED << preferencesLoaded, effect, pc >>
  /\ NoiseUnchanged
  /\ BrowserUnchanged

SetTerrainParam ==
  \E property \in DOMAIN terrainConfig :
    \E value \in TerrainValues(terrainConfig, property) :
      handleTerrainConfigChange(property, value)

SetStarParam ==
  \E property \in DOMAIN starConfig :
    \E value \in StarValues(starConfig, property) :
      handleStarConfigChange(property, value)

ApplyPreset == \E preset \in Presets : handleQualityPresetChange(preset)

\* The "Apply & Restart Renderer" button.  It is on the page while the last
\* render had needsRestart set.  Its handler is setNeedsRestart(true): while
\* the state is true that changes nothing (React drops the update), so the
\* press that is a step is the one made after restartTerrain's
\* setNeedsRestart(false) and before React has rendered it, when the page
\* still shows the button of the render the running effect belongs to.
ApplyAndRestart ==
  /\ pc = "idle"
  /\ preferencesLoaded
  /\ ~needsRestart /\ effect.active /\ effect.needsRestart
  /\ needsRestart' = TRUE
  /\ lastOp' = "applyRestart"
  /\ lastTick' = NoTick
  /\ lastEdit' = NoEdit
  /\ UNCHANGED << terrainConfig, starConfig, currentQuality,
                  preferencesLoaded, effect, pc, edits, localStorage,
                  snackbar >>
  /\ EngineUnchanged
  /\ NoiseUnchanged
  /\ BrowserUnchanged

Next ==
  \/ LoadPreferences
  \/ RunEffect
  \/ Reseed
  \/ Tick
  \/ SetTerrainParam
  \/ SetStarParam
  \/ ApplyPreset
  \/ resetToDefaults
  \/ ApplyAndRestart

Spec == Init /\ [][Next]_vars

\* The same component on a display that calls back every 1/60 s or, when a
\* callback is late, 1/30 s after the previous one.
FrameInit ==
  /\ Mounted
  /\ terrainConfig = DEFAULT_TERRAIN_CONFIG
  /\ localStorage \in { NothingStored }
                       \cup { p \in StoredPreferences :
                                 p.terrainConfig.renderDistance = 1 }
  /\ permutationTable = [ i \in 0..(TableSize - 1) |-> i ]
  /\ storageFull = FALSE
  /\ frameGaps = { frameInterval \div 2, frameInterval }

FrameSpec == FrameInit /\ [][Next]_vars

\* The same component in a browser whose storage takes no write: setItem
\* throws on every call (quota exceeded, or storage switched off).
FullStorageInit ==
  /\ Mounted
  /\ terrainConfig = DEFAULT_TERRAIN_CONFIG
  /\ localStorage \in { NothingStored, MalformedEntry }
  /\ permutationTable = [ i \in 0..(TableSize - 1) |-> i ]
  /\ storageFull = TRUE
  /\ frameGaps = { frameInterval }

FullStorageSpec == FullStorageInit /\ [][Next]_vars

\* React runs an effect whose dependencies changed after the render that
\* changed them, and restartTerrain runs to its end once entered: the three
\* effect steps are not postponed for ever.  Frames and user input have no
\* such guarantee.  Each condition names its step by the variable that only
\* that step changes: LoadPreferences sets preferencesLoaded, RunEffect
\* replaces what the effect captured, Reseed leaves restartTerrain.
LoadStep == ~preferencesLoaded /\ preferencesLoaded' = TRUE

EffectStep ==
  /\ pc = "idle"
  /\ preferencesLoaded
  /\ ~effect.active \/ effect.needsRestart # needsRestart
  /\ effect' = [ active |-> TRUE, terrainConfig |-> terrainConfig,
                 starConfig |-> starConfig, isInitialized |-> isInitialized,
                 needsRestart |-> needsRestart ]

ReseedStep == pc = "reseed" /\ pc' = "idle"

FairSpec ==
  /\ Spec
  /\ WF_preferencesLoaded(LoadStep)
  /\ WF_effect(EffectStep)
  /\ WF_pc(ReseedStep)

\* ------------------------------------------------- the noise generator
\* The generator on its own: a table drawn at construction, then calls of
\* its methods with coordinates from a small grid around the origin.
Coordinates == (0..MaxCoordinate) \X (0..1)
Octaves == { 1, 2 }
Persistences == { 500 }
Lacunarities == { 2000 }

ComponentUnchanged ==
  UNCHANGED << terrainConfig, starConfig, currentQuality, needsRestart,
               preferencesLoaded, isInitialized, effect, terrainChunks,
               pendingChunks, chunkGenerationQueue, starChunksMap,
               starChunkGenerationQueue, generatedChunks, cameraPosition,
               cameraTargetPosition, currentSpeed, lastChunkUpdatePosition,
               lastChunk, lastStarChunk, pc, onLoadCalls, lastOp, lastTick,
               drain, edits, localStorage, lastEdit, snackbar, maxDisposed,
               sampledChunks, heightfields, storageFull, frameGaps,
               sinceFrame, sinceTick, ticksApart, queuedUnder, scene >>

NoiseInit ==
  /\ Mounted
  /\ terrainConfig = DEFAULT_TERRAIN_CONFIG
  /\ localStorage = NothingStored
  /\ permutationTable \in PermutationTables
  /\ storageFull = FALSE
  /\ frameGaps = { frameInterval }

Sample(x, y) ==
  /\ calls < MaxCalls
  /\ noiseCache' = generateNoise(noiseCache, permutationTable, x, y).cache
  /\ calls' = calls + 1
  /\ UNCHANGED permutationTable
  /\ ComponentUnchanged

Fractal(x, y, octaves, persistence, lacunarity) ==
  /\ calls < MaxCalls
  /\ noiseCache' = generateTerrainNoise(noiseCache, permutationTable, x, y,
                                        octaves, persistence, lacunarity).cache
  /\ calls' = calls + 1
  /\ UNCHANGED permutationTable
  /\ ComponentUnchanged

ClearCache ==
  /\ noiseCache' = clearCache(noiseCache)
  /\ UNCHANGED << permutationTable, calls >>
  /\ ComponentUnchanged

SampleAny == \E c \in Coordinates : Sample(c[1], c[2])

FractalAny ==
  \E c \in Coordinates, octaves \in Octaves, persistence \in Persistences,
     lacunarity \in Lacunarities :
    Fractal(c[1], c[2], octaves, persistence, lacunarity)

NoiseNext ==
  \/ SampleAny
  \/ FractalAny
  \/ ClearCache

NoiseSpec == NoiseInit /\ [][NoiseNext]_vars

\* --------------------------------------------------- building chunks
\* getTerrainChunk with its heightmap, on a chunk with its neighbours along
\* x and along z and with grids of a few vertices.  The cache is small here, so its clearing,
\* which the engine ties to its size, is taken at any time.
ChunkBlock == { << 0, 0 >>, << 1, 0 >>, << 0, 1 >> }

ChunkConfigs ==
  { Merge(DEFAULT_TERRAIN_CONFIG,
          [ chunkSize |-> 2000, segments |-> 2, noiseScale |-> 1 ]),
    Merge(DEFAULT_TERRAIN_CONFIG,
          [ chunkSize |-> 2000, segments |-> 4, noiseScale |-> 2 ]) }

ChunkUnchanged ==
  UNCHANGED << terrainConfig, starConfig, currentQuality, needsRestart,
               preferencesLoaded, isInitialized, effect, terrainChunks,
               pendingChunks, chunkGenerationQueue, starChunksMap,
               starChunkGenerationQueue, generatedChunks, cameraPosition,
               cameraTargetPosition, currentSpeed, lastChunkUpdatePosition,
               lastChunk, lastStarChunk, pc, onLoadCalls, lastOp, lastTick,
               drain, edits, localStorage, lastEdit, snackbar, maxDisposed,
               permutationTable, calls, storageFull, frameGaps, sinceFrame,
               sinceTick, ticksApart, queuedUnder, scene >>

ChunkInit ==
  /\ Mounted
  /\ terrainConfig \in ChunkConfigs
  /\ localStorage = NothingStored
  /\ permutationTable \in PermutationTables
  /\ storageFull = FALSE
  /\ frameGaps = { frameInterval }

BuildChunk(c) ==
  /\ c \notin DOMAIN heightfields
  /\ LET built == HeightmapLoop([ cache |-> noiseCache, vertices |-> EmptyMap ],
                                permutationTable, terrainConfig, c)
     IN /\ noiseCache' = built.cache
        /\ heightfields' = MapSet(heightfields, c, built.vertices)
  /\ sampledChunks' = sampledChunks \cup {c}
  /\ ChunkUnchanged

EvictChunk(c) ==
  /\ c \in DOMAIN heightfields
  /\ heightfields' = MapKeep(heightfields, DOMAIN heightfields \ {c})
  /\ UNCHANGED << noiseCache, sampledChunks >>
  /\ ChunkUnchanged

ClearNoiseCache ==
  /\ noiseCache' = clearCache(noiseCache)
  /\ sampledChunks' = {}
  /\ UNCHANGED heightfields
  /\ ChunkUnchanged

BuildAny == \E c \in ChunkBlock : BuildChunk(c)

EvictAny == \E c \in ChunkBlock : EvictChunk(c)

ChunkNext ==
  \/ BuildAny
  \/ EvictAny
  \/ ClearNoiseCache

ChunkSpec == ChunkInit /\ [][ChunkNext]_vars


\* --------------------------------------------------------- properties
NoDuplicates(q) == Cardinality(Range(q)) = Len(q)

Chebyshev(c, centre) == Max(Abs(c[1] - centre[1]), Abs(c[2] - centre[2]))

NearToFar(q, centre) ==
  \A i, j \in DOMAIN q : i < j => Chebyshev(q[i], centre) <= Chebyshev(q[j], centre)

\* The circular footprint around a chunk.
Within(centre, renderDistance) ==
  { c \in ((centre[1] - renderDistance)..(centre[1] + renderDistance))
            \X ((centre[2] - renderDistance)..(centre[2] + renderDistance)) :
      (c[1] - centre[1]) * (c[1] - centre[1])
        + (c[2] - centre[2]) * (c[2] - centre[2])
        <= renderDistance * renderDistance }

CeilDiv(n, b) == (n + b - 1) \div b

\* C1: the ready notification is invoked at most once over any sequence of
\* frames, edits and restarts.
C1_OnLoadAtMostOnce == onLoadCalls <= 1

\* C2: in each grid no coordinate is both queued and live, and no coordinate
\* is queued twice.
C2_QueueLiveDisjoint ==
  /\ NoDuplicates(chunkGenerationQueue)
  /\ NoDuplicates(starChunkGenerationQueue)
  /\ Range(chunkGenerationQueue) \cap DOMAIN terrainChunks = {}
  /\ Range(starChunkGenerationQueue) \cap DOMAIN starChunksMap = {}

\* a frame has recomputed both grids around a moved camera while both grids
\* hold live chunks and queued coordinates
C2_Witness ==
  /\ lastOp = "tick" /\ lastTick.updT /\ lastTick.updS
  /\ lastTick.appendedT # << >> /\ lastTick.appendedS # << >>
  /\ DOMAIN terrainChunks # {} /\ DOMAIN starChunksMap # {}

\* C3: the ready flag never goes back to false, only a frame sets it, and a
\* frame that starts with the flag down raises it exactly when the generated
\* count has reached initialChunks at its end.
C3_ReadyOnceAtThreshold ==
  [][ /\ isInitialized => isInitialized'
      /\ isInitialized' # isInitialized => lastOp' = "tick"
      /\ (lastOp' = "tick" /\ ~isInitialized) =>
           (isInitialized' <=>
              generatedChunks' >= effect.terrainConfig.initialChunks) ]_vars

\* a restart has put the generated count back below initialChunks and the
\* flag is still up
C3_Witness ==
  /\ lastOp = "reseed" /\ isInitialized
  /\ generatedChunks < effect.terrainConfig.initialChunks

\* C4: inside restart, before reseeding, the collections and queues are empty
\* and the count is 0; after reseeding each queue is as long as the spiral of
\* its grid's renderDistance.
C4_RestartEmptiesThenReseeds ==
  /\ pc = "reseed" =>
       /\ DOMAIN terrainChunks = {} /\ DOMAIN starChunksMap = {}
       /\ chunkGenerationQueue = << >> /\ starChunkGenerationQueue = << >>
       /\ generatedChunks = 0
  /\ lastOp = "reseed" =>
       /\ Len(chunkGenerationQueue)
            = Len(generateSpiralOrder(terrainConfig.renderDistance))
       /\ Len(starChunkGenerationQueue)
            = Len(generateSpiralOrder(starConfig.renderDistance))

\* a restart that followed frames which had built terrain and star chunks
C4_Witness ==
  /\ lastOp = "reseed" /\ isInitialized /\ edits > 0
  /\ Len(chunkGenerationQueue) > 1 /\ Len(starChunkGenerationQueue) > 1

\* What C5 compares.
RestartView(e) ==
  << e.terrainChunks, e.starChunksMap, e.chunkGenerationQueue,
     e.starChunkGenerationQueue, e.pendingChunks, e.generatedChunks,
     e.cameraTargetPosition >>

\* The engine effect is about to run with needsRestart set, that is, to
\* call restartTerrain.
RestartPending ==
  /\ pc = "idle" /\ preferencesLoaded /\ needsRestart
  /\ ~effect.active \/ ~effect.needsRestart

\* C5: a second restart right after a restart changes nothing: from every
\* state in which a restart is about to run, two restarts leave what one
\* leaves, and the state a restart has just left is left as it is by another.
C5_RestartIdempotent ==
  /\ RestartPending =>
       \A once \in { restartTerrain(Engine, effect.terrainConfig,
                                    effect.starConfig) } :
         \A twice \in { restartTerrain(once, effect.terrainConfig,
                                       effect.starConfig) } :
           RestartView(twice) = RestartView(once)
  /\ lastOp = "reseed" =>
       \A again \in { restartTerrain(Engine, effect.terrainConfig,
                                     effect.starConfig) } :
         RestartView(again) = RestartView(Engine)

\* a restart has just reseeded both queues
C5_Witness ==
  /\ lastOp = "reseed"
  /\ pendingChunks # {} /\ starChunkGenerationQueue # << >>

\* C6: a recomputation leaves live exactly the chunks that were live before
\* it (those live at the frame's start and those the frame built) and lie in
\* the required set.
C6_EvictIsIntersection ==
  [][ lastOp' = "tick" =>
        /\ lastTick'.updT =>
             DOMAIN terrainChunks'
               = (DOMAIN terrainChunks \cup Range(lastTick'.drainedT))
                 \cap Within(ChunkOf(cameraTargetPosition',
                                     effect.terrainConfig.chunkSize),
                             effect.terrainConfig.renderDistance)
        /\ lastTick'.updS =>
             DOMAIN starChunksMap'
               = (DOMAIN starChunksMap \cup Range(lastTick'.drainedS))
                 \cap Within(ChunkOf(cameraTargetPosition',
                                     effect.starConfig.chunkSize),
                             effect.starConfig.renderDistance) ]_vars

\* a recomputation has evicted some star chunks and kept others
C6_Witness ==
  /\ lastOp = "tick" /\ lastTick.updS
  /\ lastTick.evictedS # {} /\ DOMAIN starChunksMap # {}

\* the same for terrain chunks
C6_WitnessTerrain ==
  /\ lastOp = "tick" /\ lastTick.updT
  /\ lastTick.evictedT # {} /\ DOMAIN terrainChunks # {}

\* C7: a frame shifts at most batchSize entries off the queue it drains, and
\* a queue seeded with n entries to which nothing was appended holds
\* n - b * k entries after k draining frames, so it is empty after exactly
\* ceil(n / b) of them.
C7_BatchBound ==
  LET bT == effect.terrainConfig.chunkGenerationBatchSize
      bS == effect.starConfig.chunkGenerationBatchSize
      T == drain.T
      S == drain.S
  IN /\ lastOp = "tick" =>
          /\ Len(lastTick.drainedT) <= bT
          /\ Len(lastTick.drainedS) <= bS
     /\ ~T.enq =>
          /\ Len(chunkGenerationQueue) = Max(0, T.seed - bT * T.ticks)
          /\ T.ticks <= CeilDiv(T.seed, bT)
     /\ ~S.enq =>
          /\ Len(starChunkGenerationQueue) = Max(0, S.seed - bS * S.ticks)
          /\ S.ticks <= CeilDiv(S.seed, bS)

\* a queue of at least five entries, drained over several frames with
\* nothing appended, is empty after ceil(n / b) of them
C7_Witness ==
  /\ ~drain.T.enq /\ drain.T.seed >= 5
  /\ chunkGenerationQueue = << >>
  /\ drain.T.ticks >= 2
  /\ drain.T.ticks =
       CeilDiv(drain.T.seed, effect.terrainConfig.chunkGenerationBatchSize)

\* C8: a frame that starts with a terrain entry queued shifts nothing off
\* the star queue.
C8_TerrainFirst ==
  [][ lastOp' = "tick" =>
        /\ chunkGenerationQueue # << >> => lastTick'.drainedS = << >>
        /\ lastTick'.drainedS # << >> => lastTick'.drainedT = << >> ]_vars

\* a frame drained terrain entries while star entries stayed queued
C8_Witness ==
  /\ lastOp = "tick" /\ lastTick.drainedT # << >>
  /\ starChunkGenerationQueue # << >> /\ DOMAIN starChunksMap # {}

IsPrefixThenRest(old, drained, new) ==
  /\ Len(drained) <= Len(old)
  /\ drained = SubSeq(old, 1, Len(drained))
  /\ Len(new) >= Len(old) - Len(drained)
  /\ SubSeq(new, 1, Len(old) - Len(drained))
       = SubSeq(old, Len(drained) + 1, Len(old))

\* C9: a frame takes the entries it builds off the head of the queue in
\* queue order and leaves the others in place, ahead of anything it appends;
\* no other step touches a queue, except restart and the engine set-up, which
\* finds the queues empty or is the effect's run that follows a restart.
C9_Fifo ==
  [][ /\ lastOp' = "tick" =>
           /\ IsPrefixThenRest(chunkGenerationQueue, lastTick'.drainedT,
                               chunkGenerationQueue')
           /\ IsPrefixThenRest(starChunkGenerationQueue, lastTick'.drainedS,
                               starChunkGenerationQueue')
           /\ Range(lastTick'.drainedT) \subseteq
                DOMAIN terrainChunks' \cup lastTick'.evictedT
      /\ lastOp' \notin { "tick", "setup", "clear", "reseed" } =>
           UNCHANGED << chunkGenerationQueue, starChunkGenerationQueue >>
      /\ lastOp' = "setup" =>
           \/ chunkGenerationQueue = << >> /\ starChunkGenerationQueue = << >>
           \/ effect.active /\ effect.needsRestart
    ]_vars

\* a frame built two queued chunks, kept the rest of the queue and appended
\* behind it
C9_Witness ==
  /\ lastOp = "tick" /\ Len(lastTick.drainedT) >= 2
  /\ lastTick.appendedT # << >>
  /\ Len(chunkGenerationQueue) > Len(lastTick.appendedT)

\* C10: what one operation appends to a queue is in non-decreasing Chebyshev
\* distance from the camera's chunk.
C10_AppendedNearToFar ==
  /\ lastOp \in { "setup", "reseed" } =>
       /\ NearToFar(chunkGenerationQueue,
                    ChunkOf(cameraPosition, effect.terrainConfig.chunkSize))
       /\ NearToFar(starChunkGenerationQueue,
                    ChunkOf(cameraPosition, effect.starConfig.chunkSize))
  /\ lastOp = "tick" =>
       /\ NearToFar(lastTick.appendedT,
                    ChunkOf(cameraTargetPosition,
                            effect.terrainConfig.chunkSize))
       /\ NearToFar(lastTick.appendedS,
                    ChunkOf(cameraTargetPosition, effect.starConfig.chunkSize))


\* The layer the i-th entry of a spiral belongs to: layer k ends at entry
\* (2k+1)^2.
LayerOfIndex(i, renderDistance) ==
  CHOOSE k \in 0..renderDistance :
    /\ i <= (2 * k + 1) * (2 * k + 1)
    /\ k > 0 => i > (2 * k - 1) * (2 * k - 1)

\* The spiral of renderDistance r has (2r+1)^2 entries, starts at (0,0),
\* never steps to a smaller Chebyshev distance, and every entry of layer k
\* is at Chebyshev distance exactly k, so each layer is strictly farther
\* than the one before.
SpiralShapeOf(r) ==
  LET spiralOrder == generateSpiralOrder(r) IN
    /\ Len(spiralOrder) = (2 * r + 1) * (2 * r + 1)
    /\ spiralOrder[1] = << 0, 0 >>
    /\ \A i \in 1..(Len(spiralOrder) - 1) :
         Chebyshev(spiralOrder[i], << 0, 0 >>)
           <= Chebyshev(spiralOrder[i + 1], << 0, 0 >>)
    /\ \A i \in DOMAIN spiralOrder :
         Chebyshev(spiralOrder[i], << 0, 0 >>) = LayerOfIndex(i, r)

\* The same for every renderDistance up to the largest a setting takes.
SpiralShapes == [ r \in 0..MaxRenderDistance |-> SpiralShapeOf(r) ]

\* For every renderDistance r >= 0 (every one up to the largest a setting
\* takes, and the two configured) the spiral has that shape.
SpiralShape ==
  \A r \in (0..MaxRenderDistance)
           \cup { terrainConfig.renderDistance, starConfig.renderDistance } :
    IF r \in DOMAIN SpiralShapes THEN SpiralShapes[r] ELSE SpiralShapeOf(r)

\* C11: in every state, for every renderDistance r >= 0 the spiral has
\* (2r+1)^2 entries, starts at (0,0), is non-decreasing in Chebyshev distance
\* and has each layer strictly farther than the one before.
C11_SpiralShape == []SpiralShape

\* the engine has just seeded the terrain queue with the two-layer spiral
\* around the camera's chunk
C11_Witness ==
  /\ lastOp = "setup" /\ effect.terrainConfig.renderDistance = 2
  /\ chunkGenerationQueue
       = Shift(generateSpiralOrder(2),
               ChunkOf(cameraPosition, effect.terrainConfig.chunkSize))
  /\ Len(chunkGenerationQueue) = 25


\* The coordinates a recomputation around the camera target requires.
RequiredAround(tc) ==
  Range(Shift(ScanOffsets(tc.renderDistance),
              ChunkOf(cameraTargetPosition, tc.chunkSize)))

\* The required set around the camera's chunk is the circular footprint
\* { (cx+dx, cz+dz) : dx^2 + dz^2 <= r^2 }, for both grids; a recomputation
\* leaves nothing outside it alive and everything inside it live or waiting;
\* for r = 2 it has 13 coordinates and none of the four corners.
RequiredSetCircular ==
  LET tc == effect.terrainConfig
      sc == effect.starConfig
      cT == ChunkOf(cameraTargetPosition, tc.chunkSize)
      cS == ChunkOf(cameraTargetPosition, sc.chunkSize)
  IN /\ RequiredAround(tc) = Within(cT, tc.renderDistance)
     /\ RequiredAround(sc) = Within(cS, sc.renderDistance)
     /\ (lastOp = "tick" /\ lastTick.updT) =>
          /\ DOMAIN terrainChunks \subseteq Within(cT, tc.renderDistance)
          /\ Within(cT, tc.renderDistance)
               \subseteq DOMAIN terrainChunks \cup pendingChunks
     /\ (lastOp = "tick" /\ lastTick.updS) =>
          /\ DOMAIN starChunksMap \subseteq Within(cS, sc.renderDistance)
          /\ Within(cS, sc.renderDistance)
               \subseteq DOMAIN starChunksMap
                         \cup Range(starChunkGenerationQueue)
     /\ tc.renderDistance = 2 =>
          /\ Cardinality(RequiredAround(tc)) = 13
          /\ \A dx, dz \in { 0 - 2, 2 } :
               << cT[1] + dx, cT[2] + dz >> \notin RequiredAround(tc)

\* C12: in every state the required set around the camera's chunk is exactly
\* the circular footprint dx^2 + dz^2 <= r^2 (13 coordinates and no corner
\* for r = 2), and a recomputation keeps to it.
C12_RequiredSetCircular == []RequiredSetCircular
     /\ Range(Shift(ScanOffsets(2), << 0, 0 >>)) = Within(<< 0, 0 >>, 2)
     /\ Cardinality(Range(Shift(ScanOffsets(2), << 0, 0 >>))) = 13

\* a frame recomputed the terrain with renderDistance 2 and evicted chunks
\* that had left the footprint
C12_Witness ==
  /\ lastOp = "tick" /\ lastTick.updT
  /\ effect.terrainConfig.renderDistance = 2
  /\ lastTick.evictedT # {} /\ lastTick.appendedT # << >>


\* C13 (as stated): whatever an operation puts on a queue lies, at that
\* moment, in the circular required set of the camera's chunk and was
\* neither live nor pending: the queue a seeding leaves, and what a
\* recomputation appends.
C13_EnqueuedAreRequired ==
  [][ /\ lastOp' \in { "setup", "reseed" } =>
           /\ Range(chunkGenerationQueue')
                \subseteq Within(ChunkOf(cameraPosition',
                                         effect'.terrainConfig.chunkSize),
                                 effect'.terrainConfig.renderDistance)
           /\ Range(starChunkGenerationQueue')
                \subseteq Within(ChunkOf(cameraPosition',
                                         effect'.starConfig.chunkSize),
                                 effect'.starConfig.renderDistance)
      /\ lastOp' = "tick" =>
           /\ Range(lastTick'.appendedT)
                \subseteq Within(ChunkOf(cameraTargetPosition',
                                         effect.terrainConfig.chunkSize),
                                 effect.terrainConfig.renderDistance)
           /\ Range(lastTick'.appendedT)
                \cap (DOMAIN terrainChunks \cup pendingChunks
                      \cup Range(chunkGenerationQueue)) = {}
           /\ Range(lastTick'.appendedS)
                \subseteq Within(ChunkOf(cameraTargetPosition',
                                         effect.starConfig.chunkSize),
                                 effect.starConfig.renderDistance)
           /\ Range(lastTick'.appendedS)
                \cap (DOMAIN starChunksMap
                      \cup Range(starChunkGenerationQueue)) = {}
    ]_vars


\* The square of Chebyshev radius renderDistance around a chunk.
Square(centre, renderDistance) ==
  ((centre[1] - renderDistance)..(centre[1] + renderDistance))
    \X ((centre[2] - renderDistance)..(centre[2] + renderDistance))

\* C13 (amended): what a recomputation appends to a queue lies in the
\* circular required set of the camera's chunk and was neither live nor
\* pending; a seeding queues the whole square of the spiral around the
\* camera's chunk, corners included, except what is live.
C13_RecomputationEnqueuesRequired ==
  [][ /\ lastOp' \in { "setup", "reseed" } =>
           /\ Range(chunkGenerationQueue')
                = Square(ChunkOf(cameraPosition',
                                 effect'.terrainConfig.chunkSize),
                         effect'.terrainConfig.renderDistance)
                  \ DOMAIN terrainChunks'
           /\ Range(starChunkGenerationQueue')
                = Square(ChunkOf(cameraPosition',
                                 effect'.starConfig.chunkSize),
                         effect'.starConfig.renderDistance)
                  \ DOMAIN starChunksMap'
      /\ lastOp' = "tick" =>
           /\ Range(lastTick'.appendedT)
                \subseteq Within(ChunkOf(cameraTargetPosition',
                                         effect.terrainConfig.chunkSize),
                                 effect.terrainConfig.renderDistance)
           /\ Range(lastTick'.appendedT)
                \cap (DOMAIN terrainChunks \cup pendingChunks
                      \cup Range(chunkGenerationQueue)) = {}
           /\ Range(lastTick'.appendedS)
                \subseteq Within(ChunkOf(cameraTargetPosition',
                                         effect.starConfig.chunkSize),
                                 effect.starConfig.renderDistance)
           /\ Range(lastTick'.appendedS)
                \cap (DOMAIN starChunksMap
                      \cup Range(starChunkGenerationQueue)) = {}
    ]_vars

\* a recomputation appended at least three coordinates while chunks were
\* live and others still pending
C13_Witness ==
  /\ lastOp = "tick" /\ Len(lastTick.appendedT) >= 3
  /\ DOMAIN terrainChunks # {}
  /\ Len(chunkGenerationQueue) > Len(lastTick.appendedT)


\* Whether the step's new camera target lies more than updateThreshold, on
\* the x or the z axis, from the position of the last recomputation.
CrossedUpdateThreshold ==
  LET tc == effect.terrainConfig IN
    \/ Abs(cameraTargetPosition'[1] - lastChunkUpdatePosition[1])
         > tc.updateThreshold
    \/ Abs(cameraTargetPosition'[2] - lastChunkUpdatePosition[2])
         > tc.updateThreshold

\* C14 (as stated): a frame in which the displacement since the last update
\* position exceeds updateThreshold recomputes the visible chunks and resets
\* the last update position; a frame in which it does not recomputes nothing.
C14_ThresholdRecomputes ==
  [][ lastOp' = "tick" =>
        IF CrossedUpdateThreshold
        THEN /\ lastTick'.updT
             /\ lastChunkUpdatePosition' = cameraTargetPosition'
        ELSE /\ ~lastTick'.updT /\ ~lastTick'.updS
             /\ UNCHANGED lastChunkUpdatePosition ]_vars

\* C14 (amended): a frame in which the displacement exceeds updateThreshold
\* resets the last update position and recomputes a grid, once, exactly when
\* the camera's chunk in that grid differs from the chunk of the grid's last
\* recomputation; a frame in which it does not exceed it recomputes nothing
\* and keeps the last update position and the last chunks.
C14_ThresholdThenChunkChange ==
  [][ lastOp' = "tick" =>
        LET cameraChunk == ChunkOf(cameraTargetPosition',
                                   effect.terrainConfig.chunkSize)
            starChunk == ChunkOf(cameraTargetPosition',
                                 effect.starConfig.chunkSize)
        IN IF CrossedUpdateThreshold
           THEN /\ lastChunkUpdatePosition' = cameraTargetPosition'
                /\ lastTick'.updT <=> cameraChunk # lastChunk
                /\ lastTick'.updS <=> starChunk # lastStarChunk
                /\ lastChunk' = cameraChunk
                /\ lastStarChunk' = starChunk
           ELSE /\ ~lastTick'.updT /\ ~lastTick'.updS
                /\ UNCHANGED << lastChunkUpdatePosition, lastChunk,
                                lastStarChunk >> ]_vars

\* a frame crossed the threshold and a terrain chunk boundary but no star
\* chunk boundary: the terrain alone was recomputed
C14_Witness ==
  /\ lastOp = "tick" /\ lastTick.updT /\ ~lastTick.updS
  /\ lastChunkUpdatePosition = cameraTargetPosition
  /\ lastChunk = ChunkOf(cameraTargetPosition, effect.terrainConfig.chunkSize)

\* C15: an edit that sets segments or chunkSize to zero or a negative value is
\* rejected: the configuration keeps its previous value, and needsRestart,
\* the quality name, the persisted preferences, the chunks and the queues
\* stay as they were.
C15_NonPositiveRejected ==
  [][ ( /\ lastOp' = "terrainParam"
        /\ lastEdit'.property \in { "segments", "chunkSize" }
        /\ edits' = edits + 1 )
      => \/ terrainConfig'[lastEdit'.property] > 0
         \/ UNCHANGED << terrainConfig, needsRestart, currentQuality,
                         localStorage, terrainChunks, starChunksMap,
                         chunkGenerationQueue, starChunkGenerationQueue >>
    ]_vars

\* The restart allow-lists as the specification gives them.
RestartAllowList ==
  [ terrain |-> { "chunkSize", "segments", "renderDistance", "overlap",
                  "heightScale", "noiseScale", "fogNear", "fogFar",
                  "moveSpeed", "initialChunks", "chunkGenerationBatchSize",
                  "antialias", "pixelRatio" },
    star |-> { "chunkSize", "renderDistance", "starsPerChunk",
               "chunkGenerationBatchSize", "yRange" } ]

\* a step that is one edit of one setting through its handler
IsParamEdit ==
  /\ edits' = edits + 1
  /\ lastOp' \in { "terrainParam", "starParam" }

\* C16: an edit of a parameter on the restart allow-list (terrain or star)
\* sets needsRestart; an edit of any other parameter leaves needsRestart as
\* it was.
C16_RestartAllowList ==
  [][ IsParamEdit =>
        IF lastEdit'.property \in RestartAllowList[lastEdit'.domain]
        THEN needsRestart'
        ELSE needsRestart' = needsRestart
    ]_vars

\* both kinds happen: a listed parameter was edited and a restart is
\* requested; the model also reaches unlisted edits without a request
C16_Witness ==
  /\ lastOp = "terrainParam"
  /\ lastEdit.property = "overlap"
  /\ needsRestart
  /\ ~effect.needsRestart

\* The live-apply parameters as the specification gives them.
LiveApplyList ==
  [ terrain |-> { "wireframe", "wireframeOpacity", "terrainColor",
                  "cameraHeight", "cameraDistance" },
    star |-> { "enabled", "starSize", "starOpacity" } ]

\* C17: an edit of a live-apply parameter leaves the keys of the live terrain
\* and star chunks, both generation queues, the pending set and the count of
\* generated chunks as they were.
C17_LiveApplyKeepsChunks ==
  [][ ( /\ IsParamEdit
        /\ lastEdit'.property \in LiveApplyList[lastEdit'.domain] )
      => /\ DOMAIN terrainChunks' = DOMAIN terrainChunks
         /\ DOMAIN starChunksMap' = DOMAIN starChunksMap
         /\ UNCHANGED << chunkGenerationQueue, starChunkGenerationQueue,
                         pendingChunks, generatedChunks >>
    ]_vars

\* the camera distance was edited while chunks were live and others queued,
\* and the live-apply effect moved the camera target
C17_Witness ==
  /\ lastOp = "terrainParam"
  /\ lastEdit = [ domain |-> "terrain", property |-> "cameraDistance" ]
  /\ effect.active
  /\ DOMAIN terrainChunks # {} /\ chunkGenerationQueue # << >>
  /\ DOMAIN starChunksMap # {}
  /\ cameraTargetPosition[2] = terrainConfig.cameraDistance
  /\ cameraTargetPosition[2] # cameraPosition[2]

\* The four fields a preset carries.
PresetFields == { "segments", "renderDistance", "antialias", "pixelRatio" }

\* C18: applying a preset sets segments, renderDistance, antialias and
\* pixelRatio to the preset's values, the quality name to the preset's name
\* and needsRestart to true, and leaves every other terrain field and every
\* star field as it was.
C18_PresetSetsFourFields ==
  [][ ( lastOp' = "preset" /\ edits' = edits + 1 ) =>
        LET name == lastEdit'.property IN
          /\ \A f \in PresetFields :
               terrainConfig'[f] = QUALITY_PRESETS[name][f]
          /\ \A f \in DOMAIN terrainConfig \ PresetFields :
               terrainConfig'[f] = terrainConfig[f]
          /\ DOMAIN terrainConfig' = DOMAIN terrainConfig
          /\ starConfig' = starConfig
          /\ currentQuality' = name
          /\ needsRestart'
    ]_vars

\* the preset "low" was applied over a configuration loaded with other
\* sizes: its four fields changed, the loaded sizes stayed
C18_Witness ==
  /\ lastOp = "preset" /\ currentQuality = "low" /\ needsRestart
  /\ terrainConfig.segments = 20 /\ terrainConfig.pixelRatio = 750
  /\ terrainConfig.chunkSize # DEFAULT_TERRAIN_CONFIG.chunkSize
  /\ starConfig.chunkSize # DEFAULT_STAR_CONFIG.chunkSize

\* C19: an edit of a restart-requiring parameter, terrain or star, sets the
\* quality name to "custom"; an edit of a live-apply parameter leaves the
\* quality name as it was.
C19_RestartEditSetsCustom ==
  [][ IsParamEdit =>
        /\ lastEdit'.property \in RestartAllowList[lastEdit'.domain]
             => currentQuality' = "custom"
        /\ lastEdit'.property \in LiveApplyList[lastEdit'.domain]
             => currentQuality' = currentQuality
    ]_vars

\* What a fresh mount (the default state) loads from what savePreferences
\* wrote for the current state.
Reloaded ==
  loadPreferences(savePreferences(terrainConfig, starConfig, currentQuality),
                  DEFAULT_TERRAIN_CONFIG, DEFAULT_STAR_CONFIG, "medium")

\* C20: loading what save wrote gives back every persisted terrain field
\* (moveSpeed as a vector again), every star field and the quality name,
\* and the two camera fields at their defaults whatever they were.
C20_SaveLoadRoundTrip ==
  LET loaded == Reloaded
      tc == loaded.terrainConfig
  IN /\ \A f \in PersistedTerrainFields : tc[f] = terrainConfig[f]
     /\ DOMAIN tc = DOMAIN terrainConfig
     /\ tc.cameraHeight = DEFAULT_TERRAIN_CONFIG.cameraHeight
     /\ tc.cameraDistance = DEFAULT_TERRAIN_CONFIG.cameraDistance
     /\ loaded.starConfig = starConfig
     /\ loaded.currentQuality = currentQuality

\* a state that differs from the defaults in persisted fields, in the quality
\* name and in the camera distance, which the reload does not give back
C20_Witness ==
  /\ terrainConfig.cameraDistance # DEFAULT_TERRAIN_CONFIG.cameraDistance
  /\ Reloaded.terrainConfig # terrainConfig
  /\ terrainConfig.chunkSize # DEFAULT_TERRAIN_CONFIG.chunkSize
  /\ starConfig # DEFAULT_STAR_CONFIG
  /\ localStorage
       = savePreferences(terrainConfig, starConfig, "custom")

\* The load effect found no entry, or one that does not parse, and no edit
\* has been made since.
LoadFoundNothingUsable ==
  /\ lastOp # "mount"
  /\ edits = 0
  /\ ~localStorage.present \/ ~Parses(localStorage)

\* C21: after a load that found no entry or a malformed one the configuration
\* is the default one, the malformed case has been reported as a
\* notification, the preferences-loaded flag is set (so the engine effect's
\* guard passes), and the engine's set-up leaves both queues seeded with the
\* spiral of the default render distances.
C21_FailedLoadIsNonFatal ==
  LoadFoundNothingUsable =>
    /\ terrainConfig = DEFAULT_TERRAIN_CONFIG
    /\ starConfig = DEFAULT_STAR_CONFIG
    /\ currentQuality = "medium"
    /\ preferencesLoaded
    /\ ("load" \in snackbar) = (localStorage.present /\ ~Parses(localStorage))
    /\ lastOp = "setup" =>
         /\ effect.active
         /\ Range(chunkGenerationQueue) \cup DOMAIN terrainChunks
              = Square(ChunkOf(cameraPosition, DEFAULT_TERRAIN_CONFIG.chunkSize),
                       DEFAULT_TERRAIN_CONFIG.renderDistance)
         /\ Len(starChunkGenerationQueue)
              = (2 * DEFAULT_STAR_CONFIG.renderDistance + 1)
                * (2 * DEFAULT_STAR_CONFIG.renderDistance + 1)

\* a malformed entry was reported, and the engine has set itself up with the
\* defaults and seeded both queues
C21_Witness ==
  /\ localStorage = MalformedEntry
  /\ "load" \in snackbar
  /\ lastOp = "setup" /\ effect.active
  /\ terrainConfig = DEFAULT_TERRAIN_CONFIG
  /\ chunkGenerationQueue # << >> /\ starChunkGenerationQueue # << >>

\* C24: in every reachable state each live star chunk's visible flag equals
\* the current starConfig.enabled, also for a chunk a frame builds after
\* enabled was toggled without a restart.
C24_StarVisibilityFollowsEnabled ==
  \A k \in DOMAIN starChunksMap :
    starChunksMap[k].visible = starConfig.enabled

\* The queued coordinates that lie outside the required set around chunk
\* centre.
StaleQueued(q, centre, renderDistance) ==
  Range(q) \ Within(centre, renderDistance)

\* What a frame may do to the stale entries of a queue: each of them is still
\* queued afterwards unless the frame shifted it off the head; one it shifted
\* off was built, and is gone from the live collection exactly when the same
\* frame recomputed the required set (which then lists it as evicted).
StaleHandled(q, qNew, drained, recomputed, evicted, liveNew, centre,
             renderDistance) ==
  /\ StaleQueued(q, centre, renderDistance)
       \subseteq Range(qNew) \cup Range(drained)
  /\ StaleQueued(q, centre, renderDistance) \cap Range(drained)
       \subseteq IF recomputed THEN evicted \ liveNew ELSE liveNew

\* C28: neither eviction nor a recomputation takes an entry out of a
\* generation queue: a queued coordinate that left the required set stays
\* queued until a frame shifts it off the head and builds it, and only a
\* recomputation whose required set excludes it evicts it.
C28_StaleEntriesStayQueued ==
  [][ lastOp' = "tick" =>
        /\ StaleHandled(chunkGenerationQueue, chunkGenerationQueue',
                        lastTick'.drainedT, lastTick'.updT,
                        lastTick'.evictedT, DOMAIN terrainChunks',
                        ChunkOf(cameraTargetPosition',
                                effect.terrainConfig.chunkSize),
                        effect.terrainConfig.renderDistance)
        /\ StaleHandled(starChunkGenerationQueue, starChunkGenerationQueue',
                        lastTick'.drainedS, lastTick'.updS,
                        lastTick'.evictedS, DOMAIN starChunksMap',
                        ChunkOf(cameraTargetPosition',
                                effect.starConfig.chunkSize),
                        effect.starConfig.renderDistance) ]_vars

\* a recomputation evicted chunks and left queued a coordinate outside the
\* set it required
C28_Witness ==
  /\ lastOp = "tick" /\ lastTick.updT /\ lastTick.evictedT # {}
  /\ StaleQueued(chunkGenerationQueue,
                 ChunkOf(cameraTargetPosition, effect.terrainConfig.chunkSize),
                 effect.terrainConfig.renderDistance) # {}

\* a frame built a stale coordinate and its own recomputation evicted it
C28_WitnessBuiltThenEvicted ==
  /\ lastOp = "tick" /\ lastTick.updT
  /\ Range(lastTick.drainedT) \cap lastTick.evictedT # {}

\* The circular required set around the chunk the camera target is in.
RequiredNow ==
  Within(ChunkOf(cameraTargetPosition, effect.terrainConfig.chunkSize),
         effect.terrainConfig.renderDistance)

\* C26 as stated: at the end of every frame, every live terrain chunk lies
\* within the circular required set of the camera target's current chunk.
C26_LiveWithinRequiredEveryTick ==
  lastOp = "tick" => DOMAIN terrainChunks \subseteq RequiredNow

\* C26, amended: terrain chunks are destroyed by a recomputation only (or by
\* the engine's set-up and restart): after a frame that recomputed, every
\* live terrain chunk lies within the circular required set of the camera
\* target's chunk, and a chunk that a frame removed lay outside that set in a
\* frame that recomputed; a frame that does not recompute removes nothing.
C26_DestroyedByRecomputationOnly ==
  [][ /\ (lastOp' = "tick" /\ lastTick'.updT) =>
           DOMAIN terrainChunks' \subseteq RequiredNow'
      /\ \A c \in DOMAIN terrainChunks \ DOMAIN terrainChunks' :
           \/ lastOp' \in { "setup", "clear" }
           \/ lastOp' = "tick" /\ lastTick'.updT /\ c \notin RequiredNow'
    ]_vars

\* a recomputation has just evicted terrain chunks and kept others, all of
\* them required
C26_Witness ==
  /\ lastOp = "tick" /\ lastTick.updT
  /\ lastTick.evictedT # {} /\ lastTick.evictedT \cap RequiredNow = {}
  /\ DOMAIN terrainChunks # {} /\ DOMAIN terrainChunks \subseteq RequiredNow

\* C25: no chunk's geometry is disposed twice, and no chunk that has been
\* disposed is still an entry of a live collection.
C25_DisposedAtMostOnce ==
  /\ maxDisposed <= 1
  /\ \A k \in DOMAIN terrainChunks : terrainChunks[k].disposed = 0
  /\ \A k \in DOMAIN starChunksMap : starChunksMap[k].disposed = 0

\* C27: whenever needsRestart is set, a restart follows that brings it back
\* to false with the engine running on the configuration then current.
C27_RestartEventuallyApplied ==
  needsRestart ~>
    (~needsRestart /\ effect.active /\ effect.terrainConfig = terrainConfig
       /\ effect.starConfig = starConfig)

\* C22: with a fixed permutation table sample(x, y) is deterministic: in
\* every state of the cache, whatever was sampled or cleared before, a call
\* for a coordinate returns the value the generator computes for that
\* coordinate (the value a call on the empty cache returns).
C22_SampleDeterministic ==
  \A c \in Coordinates :
    generateNoise(noiseCache, permutationTable, c[1], c[2]).value
      = simplexNoise(permutationTable, c[1], c[2])

\* C23: for all coordinates and any persistence and lacunarity, a fractal
\* call with one octave returns exactly what sample returns for the same
\* coordinate in the same cache state.
C23_SingleOctaveIsSample ==
  \A c \in Coordinates, persistence \in { 0, 500, 1000 },
     lacunarity \in { 1000, 2000, 3000 } :
    generateTerrainNoise(noiseCache, permutationTable, c[1], c[2], 1,
                         persistence, lacunarity).value
      = generateNoise(noiseCache, permutationTable, c[1], c[2]).value

\* A one-octave result is cached under a key that a neighbouring
\* coordinate with another noise value shares.
C23_Witness ==
  \E k \in DOMAIN noiseCache, c \in Coordinates :
    /\ k.params # << >>
    /\ k.params[1] = 1
    /\ k = TerrainNoiseKey(c[1], c[2], 1, k.params[2], k.params[3])
    /\ noiseCache[k] # simplexNoise(permutationTable, c[1], c[2])

\* Chunks a and b are neighbours along x or along z, b on the higher side.
Adjacent(a, b) == b = << a[1] + 1, a[2] >> \/ b = << a[1], a[2] + 1 >>

\* The vertex of b that duplicates vertex v of a: the last 2 * overlap + 1
\* columns (rows) of a are the first ones of b.
Duplicate(a, b, v) ==
  IF b[1] = a[1] + 1 THEN << v[1] - terrainConfig.segments, v[2] >>
                     ELSE << v[1], v[2] - terrainConfig.segments >>

SharedVertices(a, b) ==
  { v \in DOMAIN heightfields[a] : Duplicate(a, b, v) \in DOMAIN heightfields[b] }

\* The rows and columns two neighbours duplicate were sampled at the same
\* world coordinate and hold equal heights.
DuplicatedRowsSampleAlike ==
  \A a \in DOMAIN heightfields, b \in DOMAIN heightfields :
    Adjacent(a, b) =>
      \A v \in SharedVertices(a, b) :
        LET w == Duplicate(a, b, v)
        IN /\ heightfields[a][v].world = heightfields[b][w].world
           /\ heightfields[a][v].height = heightfields[b][w].height

\* C30: neighbouring chunks share boundary heights: for two chunks adjacent
\* along x or z, a grid point on their common boundary or in the overlap
\* rows and columns is one point of the scene for which both chunks hold a
\* vertex, sampled at the same world coordinate and with the same height.
C30_NeighboursShareBoundaryHeights ==
  \A a \in DOMAIN heightfields, b \in DOMAIN heightfields :
    Adjacent(a, b) =>
      /\ SharedVertices(a, b) # {}
      /\ \A v \in SharedVertices(a, b) :
           LET w == Duplicate(a, b, v)
           IN /\ heightfields[a][v].position = heightfields[b][w].position
              /\ heightfields[a][v].world = heightfields[b][w].world
              /\ heightfields[a][v].height = heightfields[b][w].height

\* Vertices of two neighbours at one place of the scene were sampled at the
\* same world coordinate.
CoincidentVerticesSampleAlike ==
  \A a \in DOMAIN heightfields, b \in DOMAIN heightfields :
    Adjacent(a, b) =>
      \A v \in DOMAIN heightfields[a], w \in DOMAIN heightfields[b] :
        heightfields[a][v].position = heightfields[b][w].position
          => heightfields[a][v].world = heightfields[b][w].world

\* With as many segments as the chunk is long the claim holds.
SquareCells == terrainConfig.chunkSize = terrainConfig.segments * 1000

SeamlessWhenSquare == SquareCells => C30_NeighboursShareBoundaryHeights

TwoNeighboursBuilt ==
  /\ SquareCells
  /\ \E a \in DOMAIN heightfields, b \in DOMAIN heightfields :
       Adjacent(a, b) /\ a \notin sampledChunks /\ b \in sampledChunks

\* The size of the cache is the number of keys of the chunks sampled into it,
\* and lies between the two estimates.
NoiseCacheSizeAgrees ==
  /\ Cardinality(DOMAIN noiseCache) = NoiseCacheSize(sampledChunks, terrainConfig)
  /\ NoiseCacheAtLeast(sampledChunks, terrainConfig) <= Cardinality(DOMAIN noiseCache)
  /\ Cardinality(DOMAIN noiseCache) <= NoiseCacheAtMost(sampledChunks, terrainConfig)

\* C29: the noise cache is bounded: after every chunk-visibility
\* recomputation it holds no more than 5000 entries.
C29_NoiseCacheBounded ==
  lastTick.updT => ~NoiseCacheExceeds(sampledChunks, effect.terrainConfig)

\* A recomputation cleared the cache.
CacheClearedByRecomputation ==
  lastTick.updT /\ sampledChunks = {} /\ generatedChunks > 0

\* ---------------------------------------------------------------- C31
\* The state a mutation leaves in memory when its save succeeds, for the
\* mutation the step names in lastEdit'.
MutationApplied ==
  LET p == lastEdit'.property IN
  CASE lastEdit'.domain = "terrain" ->
         /\ \E value \in TerrainValues(terrainConfig, p) :
              terrainConfig' = [ terrainConfig EXCEPT ![p] = value ]
         /\ starConfig' = starConfig
         /\ IF p \in TerrainRestartProps
            THEN needsRestart' /\ currentQuality' = "custom"
            ELSE UNCHANGED << needsRestart, currentQuality >>
    [] lastEdit'.domain = "star" ->
         /\ \E value \in StarValues(starConfig, p) :
              starConfig' = [ starConfig EXCEPT ![p] = value ]
         /\ terrainConfig' = terrainConfig
         /\ currentQuality' = currentQuality
         /\ IF p \in StarRestartProps
            THEN needsRestart'
            ELSE UNCHANGED needsRestart
    [] lastEdit'.domain = "preset" ->
         /\ terrainConfig' = Merge(terrainConfig, QUALITY_PRESETS[p])
         /\ starConfig' = starConfig
         /\ currentQuality' = p
         /\ needsRestart'
    [] lastEdit'.domain = "reset" ->
         /\ terrainConfig' = DEFAULT_TERRAIN_CONFIG
         /\ starConfig' = DEFAULT_STAR_CONFIG
         /\ currentQuality' = "medium"
         /\ needsRestart'
    [] OTHER -> FALSE

\* C31: a mutation whose save throws is applied all the same: the
\* configuration in memory takes the new value, needsRestart and the quality
\* become what they become when the save succeeds, the stored entry stays as
\* it was, and the one trace of the failure is the notification.
C31_SaveFailureIsAdvisory ==
  [][ (storageFull /\ lastEdit' # NoEdit)
        => /\ MutationApplied
           /\ edits' = edits + 1
           /\ localStorage' = localStorage
           /\ snackbar' = snackbar \cup { "save" } ]_vars

\* A segments edit made while the storage refuses writes has been applied
\* and reported, and nothing was stored.
C31_Witness ==
  /\ storageFull
  /\ lastEdit = [ domain |-> "terrain", property |-> "segments" ]
  /\ terrainConfig.segments = 0
  /\ needsRestart
  /\ currentQuality = "custom"
  /\ "save" \in snackbar
  /\ localStorage = NothingStored

\* ---------------------------------------------------------------- C32
\* C32: a frame callback the limiter drops changes nothing of the engine (no
\* queue is drained, the camera does not advance, nothing is recomputed,
\* built or evicted), and a callback that is processed comes at least
\* frameInterval after the processed frame before it.
C32_FrameLimited ==
  [][ /\ lastOp' = "skip"
           => UNCHANGED << terrainChunks, pendingChunks, chunkGenerationQueue,
                           starChunksMap, starChunkGenerationQueue,
                           generatedChunks, cameraPosition,
                           cameraTargetPosition, currentSpeed,
                           lastChunkUpdatePosition, lastChunk, lastStarChunk,
                           isInitialized, onLoadCalls, maxDisposed,
                           sampledChunks, scene >>
      /\ lastOp' = "tick" => ticksApart' >= frameInterval ]_vars

\* A callback that came half an interval after a processed frame was dropped
\* while the terrain queue held coordinates to build.
C32_Witness ==
  /\ lastOp = "skip"
  /\ sinceTick = frameInterval \div 2
  /\ chunkGenerationQueue # << >>
  /\ cameraTargetPosition[1] > 0

\* The callback after a dropped one was processed, a full interval after the
\* frame before it.
C32_WitnessProcessed ==
  /\ lastOp = "tick"
  /\ sinceTick = 0
  /\ ticksApart = frameInterval
  /\ frameInterval \div 2 \in frameGaps
  /\ cameraTargetPosition[1] > 0

\* ---------------------------------------------------------------- C34
\* The settings the live-apply effect applies without a restart, the two
\* camera settings aside.
LiveSettings ==
  { "wireframe", "wireframeOpacity", "terrainColor", "enabled", "starSize",
    "starOpacity" }

\* C34: an edit of wireframe, wireframeOpacity, terrainColor, or of the star
\* settings enabled, starSize, starOpacity leaves the camera target and the
\* position of the last chunk update where they were.
C34_LiveApplyKeepsCamera ==
  [][ (lastEdit'.domain \in { "terrain", "star" }
         /\ lastEdit'.property \in LiveSettings)
        => UNCHANGED << cameraTargetPosition, lastChunkUpdatePosition >> ]_vars

\* ---------------------------------------------------------------- C35
\* C35: in the state a mutation leaves (a terrain or star edit, a preset, a
\* reset to the defaults), the stored entry is the state in memory: the
\* terrain configuration without its camera fields, the star configuration
\* and the current quality.
C35_PersistedEqualsMemory ==
  lastEdit # NoEdit
    => localStorage = savePreferences(terrainConfig, starConfig, currentQuality)

\* ---------------------------------------------------------------- C36
\* The quality is "custom", or the terrain configuration has the values of
\* the preset the quality names.
PresetConsistent ==
  currentQuality \in DOMAIN QUALITY_PRESETS
    => \A f \in PresetFields :
         terrainConfig[f] = QUALITY_PRESETS[currentQuality][f]

\* C36: while the current quality names a preset, segments, renderDistance,
\* antialias and pixelRatio are that preset's: so the component is mounted,
\* and so every setting edit, preset, reset (every step but the load of a
\* stored entry) leaves it.
C36_QualityNamesItsPreset ==
  /\ lastOp = "mount" => PresetConsistent
  /\ [][ (lastOp' # "load" /\ PresetConsistent) => PresetConsistent' ]_vars

\* The preset "low" has been applied over "medium" and the four settings are
\* those of "low".
C36_Witness ==
  /\ lastEdit = [ domain |-> "preset", property |-> "low" ]
  /\ currentQuality = "low"
  /\ \A f \in PresetFields : terrainConfig[f] = QUALITY_PRESETS.low[f]
  /\ terrainConfig.pixelRatio # QUALITY_PRESETS.medium.pixelRatio

\* A reset to the defaults has left the quality "medium" over the values of
\* that preset.
C36_WitnessReset ==
  /\ lastEdit.domain = "reset"
  /\ currentQuality = "medium"
  /\ \A f \in PresetFields : terrainConfig[f] = QUALITY_PRESETS.medium[f]

\* ---------------------------------------------------------------- C37
\* C37: in every state between frames the children of the running effect's
\* scene are the chunks of the terrain Map and of the star Map, no more and
\* no fewer, and no chunk of either Map has been disposed.
C37_SceneIsLiveChunks ==
  /\ scene = Primitives("T", terrainChunks) \cup Primitives("S", starChunksMap)
  /\ \A c \in DOMAIN terrainChunks : terrainChunks[c].disposed = 0
  /\ \A c \in DOMAIN starChunksMap : starChunksMap[c].disposed = 0

\* A frame has evicted terrain chunks while terrain and star chunks are
\* live.
C37_Witness ==
  /\ lastOp = "tick"
  /\ lastTick.evictedT # {}
  /\ DOMAIN terrainChunks # {}
  /\ DOMAIN starChunksMap # {}
  /\ scene # {}

\* Chunks have been built again after a restart disposed of live star
\* chunks.
C37_WitnessRestart ==
  /\ lastOp = "tick"
  /\ maxDisposed >= 1
  /\ edits >= 1
  /\ DOMAIN terrainChunks # {}
  /\ ~needsRestart

\* ---------------------------------------------------------------- C38
\* C38: while needsRestart is false, every live chunk was built, and every
\* queued coordinate was pushed, under the values the restart-requiring
\* settings have now: those of the terrain for terrain chunks and the
\* terrain queue, those of the stars for star chunks and the star queue.
C38_NoSupersededChunks ==
  ~needsRestart
    => /\ \A c \in DOMAIN terrainChunks :
            terrainChunks[c].config
              = Restricted(terrainConfig, TerrainRestartProps)
       /\ \A c \in DOMAIN starChunksMap :
            starChunksMap[c].config = Restricted(starConfig, StarRestartProps)
       /\ queuedUnder.T \subseteq { Restricted(terrainConfig, TerrainRestartProps) }
       /\ queuedUnder.S \subseteq { Restricted(starConfig, StarRestartProps) }

\* After a segments edit and the restart it asked for, chunks are live and
\* coordinates queued under the new value, and the chunks of the old one
\* have been disposed.
C38_Witness ==
  /\ ~needsRestart
  /\ lastOp = "tick"
  /\ terrainConfig.segments = 0
  /\ terrainConfig.segments # DEFAULT_TERRAIN_CONFIG.segments
  /\ maxDisposed >= 1
  /\ DOMAIN terrainChunks # {}
  /\ chunkGenerationQueue # << >>
  /\ queuedUnder.T # {}

=============================================================================
